---- MODULE Spec2Model ----
(***************************************************************************)
(* Model of the Bluetooth LE audio control services of the repository:     *)
(* the VCS, VOCS and AICS control points (servers), the CSIS set lock and  *)
(* the VCS/VOCS/AICS client write-with-retry machines.                     *)
(*                                                                         *)
(* Three specifications share the variables of this module:                *)
(*   Spec       - the server control points (one service driven per run;   *)
(*                the three servers share no state)                        *)
(*   CsisSpec   - the CSIS set lock (CsisFairSpec adds the timer fairness) *)
(*   ClientSpec - a client instance, its server and a competing writer     *)
(*                (ClientFairSpec adds the GATT completion fairness)       *)
(***************************************************************************)
EXTENDS Integers, Sequences, FiniteSets, TLC

\* ------------------------------------------------------------------ bounds
\* Number of control-point operations in one behaviour of Spec.
MaxOps == 2
\* Number of remote peers (addresses 1..NumPeers; address 0 is the zeroed one).
NumPeers == 2
\* CONFIG_BT_MAX_PAIRED: entries of csis_inst.pend_notify
MaxPaired == 1
\* bound on csis_inst.age_counter (a uint32_t that only grows)
MaxAge == 2
\* events of one CSIS behaviour other than timer expiries
MaxCsisOps == 3
\* API requests of the application in a client behaviour
MaxReq == 2
\* control-point writes of another client in a client behaviour
MaxCompete == 2
\* handler calls of one behaviour of CallSpec
MaxCalls == 1
MaxDraws == 2
MaxInst == 2
MaxPoolOps == 3
MaxSess == 1
MaxAse == 1
MaxAscsOps == 4
MaxAseOps == 1
MaxDiscCalls == 2
MaxDiscSteps == 7
MaxChanges == 257
MaxDescSize == 3
MaxDescOps == 2

\* --------------------------------------------------------------- constants
VCS_CP_LEN == 2
VCS_CP_ABS_VOL_LEN == 3
VCS_OPCODE_REL_VOL_DOWN == 0
VCS_OPCODE_REL_VOL_UP == 1
VCS_OPCODE_UNMUTE_REL_VOL_DOWN == 2
VCS_OPCODE_UNMUTE_REL_VOL_UP == 3
VCS_OPCODE_SET_ABS_VOL == 4
VCS_OPCODE_UNMUTE == 5
VCS_OPCODE_MUTE == 6
VCS_ERR_INVALID_COUNTER == 128
VCS_ERR_OP_NOT_SUPPORTED == 129

VOCS_OPCODE_SET_OFFSET == 1
VOCS_CP_LEN == 4
VOCS_ERR_INVALID_COUNTER == 128
VOCS_ERR_OP_NOT_SUPPORTED == 129
VOCS_ERR_OUT_OF_RANGE == 130
VOCS_MIN_OFFSET == -255
VOCS_MAX_OFFSET == 255

AICS_CP_LEN == 2
AICS_CP_SET_GAIN_LEN == 3
AICS_OPCODE_SET_GAIN == 1
AICS_OPCODE_UNMUTE == 2
AICS_OPCODE_MUTE == 3
AICS_OPCODE_SET_MANUAL == 4
AICS_OPCODE_SET_AUTO == 5
AICS_STATE_UNMUTED == 0
AICS_STATE_MUTED == 1
AICS_STATE_MUTE_DISABLED == 2
AICS_MODE_MANUAL_ONLY == 0
AICS_MODE_AUTO_ONLY == 1
AICS_MODE_MANUAL == 2
AICS_MODE_AUTO == 3
AICS_INPUT_TYPE_NETWORK == 6
AICS_INPUT_TYPE_OTHER == 597
AICS_ERR_INVALID_COUNTER == 128
AICS_ERR_OP_NOT_SUPPORTED == 129
AICS_ERR_MUTE_DISABLED == 130
AICS_ERR_OUT_OF_RANGE == 131
AICS_ERR_GAIN_MODE_NO_SUPPORT == 132

BT_ATT_ERR_INVALID_OFFSET == 7
BT_ATT_ERR_INVALID_ATTRIBUTE_LEN == 13
BT_ATT_ERR_UNLIKELY == 14
UINT8_MAX == 255

\* csip.h (values as the protocol description gives them)
BT_CSIP_RELEASE_VALUE == 1
BT_CSIP_LOCK_VALUE == 2
BT_CSIP_ERROR_LOCK_DENIED == 130
BT_CSIP_ERROR_LOCK_RELEASE_DENIED == 131
BT_CSIP_ERROR_LOCK_INVAL_VALUE == 132

\* ----------------------------------------------------------------- helpers
MAX(a, b) == IF a > b THEN a ELSE b
MIN(a, b) == IF a < b THEN a ELSE b
\* a value stored into a uint8_t
Uint8(x) == x % 256

\* One event a handler emits: a GATT notification or an application callback.
Event(ev, v) == [ev |-> ev, v |-> v]
\* What a handler returns: the instance afterwards, the ATT error (0 = the
\* write length is returned) and the events in the order they are emitted.
Result(inst, err, events) == [inst |-> inst, err |-> err, events |-> events]

\* What a control-point handler returns: the length written, or
\* BT_GATT_ERR(err), which is -err.
handler_ret(r, len) == IF r.err = 0 THEN len ELSE -r.err

\* "return err > 0 ? 0 : err" of the local API functions
local_ret(err) == IF err > 0 THEN 0 ELSE err

\* ------------------------------------------------------------- VCS server
VOLUME_DOWN(vi, current_vol) == Uint8(MAX(0, current_vol - vi.volume_step))
\* (mutant: the sum stored into the uint8_t without MIN)
VOLUME_UP_unclamped(vi, current_vol) == Uint8(current_vol + vi.volume_step)
VOLUME_UP(vi, current_vol) == Uint8(MIN(UINT8_MAX, current_vol + vi.volume_step))

VALID_VCS_OPCODE(opcode) ==
    opcode >= VCS_OPCODE_REL_VOL_DOWN /\ opcode <= VCS_OPCODE_MUTE

\* the length guard of write_vcs_control
vcs_len_bad(cp, len) ==
    \/ len < VCS_CP_LEN
    \/ (len = VCS_CP_ABS_VOL_LEN /\ cp.opcode # VCS_OPCODE_SET_ABS_VOL)
    \/ len > VCS_CP_ABS_VOL_LEN

\* the counter guard of write_vcs_control (mutant: the guard left out)
vcs_counter_ok_nocheck(vi, cp) == TRUE
vcs_counter_ok(vi, cp) == cp.counter = vi.change_counter

\* the volume after the opcode's switch case
vcs_new_volume(vi, cp) ==
    CASE cp.opcode \in {VCS_OPCODE_REL_VOL_DOWN, VCS_OPCODE_UNMUTE_REL_VOL_DOWN} ->
            IF vi.volume # 0 THEN VOLUME_DOWN(vi, vi.volume) ELSE vi.volume
      [] cp.opcode \in {VCS_OPCODE_REL_VOL_UP, VCS_OPCODE_UNMUTE_REL_VOL_UP} ->
            IF vi.volume # UINT8_MAX THEN VOLUME_UP(vi, vi.volume) ELSE vi.volume
      [] cp.opcode = VCS_OPCODE_SET_ABS_VOL -> cp.volume
      [] OTHER -> vi.volume

\* the mute after the opcode's switch case
vcs_new_mute(vi, cp) ==
    CASE cp.opcode \in {VCS_OPCODE_UNMUTE_REL_VOL_DOWN, VCS_OPCODE_UNMUTE_REL_VOL_UP,
                        VCS_OPCODE_UNMUTE} -> 0
      [] cp.opcode = VCS_OPCODE_MUTE -> 1
      [] OTHER -> vi.mute

\* the notify flag the switch case leaves
\* (mutant: set by every case)
vcs_notify_always(vi, cp) == TRUE
vcs_notify(vi, cp) ==
    CASE cp.opcode = VCS_OPCODE_REL_VOL_DOWN -> vi.volume # 0
      [] cp.opcode = VCS_OPCODE_REL_VOL_UP -> vi.volume # UINT8_MAX
      [] cp.opcode = VCS_OPCODE_UNMUTE_REL_VOL_DOWN -> vi.volume # 0 \/ vi.mute # 0
      [] cp.opcode = VCS_OPCODE_UNMUTE_REL_VOL_UP -> vi.volume # UINT8_MAX \/ vi.mute # 0
      [] cp.opcode = VCS_OPCODE_SET_ABS_VOL -> vi.volume # cp.volume
      [] cp.opcode = VCS_OPCODE_UNMUTE -> vi.mute # 0
      [] cp.opcode = VCS_OPCODE_MUTE -> vi.mute = 0
      [] OTHER -> FALSE

vcs_volume_change(cp) ==
    cp.opcode \in VCS_OPCODE_REL_VOL_DOWN .. VCS_OPCODE_SET_ABS_VOL

\* change_counter++ on a uint8_t
\* (mutants: one increment per changed field; no wrap-around)
vcs_counter_inc_per_field(vi, cp) ==
    Uint8(vi.change_counter
          + (IF vcs_new_volume(vi, cp) # vi.volume THEN 1 ELSE 0)
          + (IF vcs_new_mute(vi, cp) # vi.mute THEN 1 ELSE 0))
vcs_counter_inc(vi, cp) == Uint8(vi.change_counter + 1)

\* the "if (notify)" block: the counter, the state notification, the callback
vcs_commit(vi, cp) ==
    LET s == [vi EXCEPT !.volume = vcs_new_volume(vi, cp),
                        !.mute = vcs_new_mute(vi, cp),
                        !.change_counter = vcs_counter_inc(vi, cp)]
    IN  Result(s, 0,
               << Event("notify_state", <<s.volume, s.mute, s.change_counter>>),
                  Event("cb_state", <<s.volume, s.mute>>) >>)

\* the "if (volume_change && !flags)" block
\* (mutant: the flags test left out)
vcs_latch_flags_always(r, cp) ==
    IF vcs_volume_change(cp)
    THEN Result([r.inst EXCEPT !.flags = 1], r.err,
                r.events \o << Event("notify_flags", <<1>>), Event("cb_flags", <<1>>) >>)
    ELSE r
vcs_latch_flags(r, cp) ==
    IF vcs_volume_change(cp) /\ r.inst.flags = 0
    THEN Result([r.inst EXCEPT !.flags = 1], r.err,
                r.events \o << Event("notify_flags", <<1>>), Event("cb_flags", <<1>>) >>)
    ELSE r

\* cp.volume is the third byte of the buffer: callers pass the byte that
\* follows a two-byte write as cp.volume (it is not part of the write).
write_vcs_control(vi, cp, len, offset) ==
    IF offset # 0 THEN Result(vi, BT_ATT_ERR_INVALID_OFFSET, <<>>)
    ELSE IF len = 0 THEN Result(vi, BT_ATT_ERR_INVALID_ATTRIBUTE_LEN, <<>>)
    ELSE IF ~VALID_VCS_OPCODE(cp.opcode) THEN Result(vi, VCS_ERR_OP_NOT_SUPPORTED, <<>>)
    ELSE IF vcs_len_bad(cp, len) THEN Result(vi, BT_ATT_ERR_INVALID_ATTRIBUTE_LEN, <<>>)
    ELSE IF ~vcs_counter_ok(vi, cp) THEN Result(vi, VCS_ERR_INVALID_COUNTER, <<>>)
    ELSE vcs_latch_flags(IF vcs_notify(vi, cp) THEN vcs_commit(vi, cp)
                         ELSE Result(vi, 0, <<>>), cp)

\* ------------------------------------------------------------ VOCS server
VALID_VOCS_OPCODE(opcode) == opcode = VOCS_OPCODE_SET_OFFSET

\* the counter guard of write_vocs_control
vocs_counter_ok(inst, cp) == cp.counter = inst.change_counter

\* the range guard of the Set Offset case
\* the range guard of write_vocs_control
\* (mutant: the lower limit left out)
vocs_offset_bad_upper_only(cp) == cp.offset > UINT8_MAX
vocs_offset_bad(cp) == cp.offset > UINT8_MAX \/ cp.offset < -UINT8_MAX

vocs_counter_keep(inst) == inst.change_counter
vocs_counter_inc(inst) == Uint8(inst.change_counter + 1)

\* the "if (notify)" block of write_vocs_control
vocs_commit(inst, cp) ==
    LET s == [inst EXCEPT !.offset = cp.offset,
                          !.change_counter = vocs_counter_inc(inst)]
    IN  Result(s, 0, << Event("notify_state", <<s.offset, s.change_counter>>),
                        Event("cb_state", <<s.offset>>) >>)

\* The guards in the order of the code: empty write, opcode, offset, length,
\* counter, range.
write_vocs_control(inst, cp, len, offset) ==
    IF len = 0 THEN Result(inst, BT_ATT_ERR_INVALID_ATTRIBUTE_LEN, <<>>)
    ELSE IF ~VALID_VOCS_OPCODE(cp.opcode) THEN Result(inst, VOCS_ERR_OP_NOT_SUPPORTED, <<>>)
    ELSE IF offset # 0 THEN Result(inst, BT_ATT_ERR_INVALID_OFFSET, <<>>)
    ELSE IF len # VOCS_CP_LEN THEN Result(inst, BT_ATT_ERR_INVALID_ATTRIBUTE_LEN, <<>>)
    ELSE IF ~vocs_counter_ok(inst, cp) THEN Result(inst, VOCS_ERR_INVALID_COUNTER, <<>>)
    ELSE IF vocs_offset_bad(cp) THEN Result(inst, VOCS_ERR_OUT_OF_RANGE, <<>>)
    ELSE IF inst.offset # cp.offset THEN vocs_commit(inst, cp)
    ELSE Result(inst, 0, <<>>)

\* ------------------------------------------------------------ AICS server
VALID_AICS_OPCODE(opcode) ==
    opcode >= AICS_OPCODE_SET_GAIN /\ opcode <= AICS_OPCODE_SET_AUTO

\* (mutant: no mode is immutable)
AICS_INPUT_MODE_IMMUTABLE_none(mode) == FALSE
AICS_INPUT_MODE_IMMUTABLE(mode) ==
    mode = AICS_MODE_MANUAL_ONLY \/ mode = AICS_MODE_AUTO_ONLY

\* (mutant: the gain can be set in every mode)
AICS_INPUT_MODE_SETTABLE_any(mode) == TRUE
AICS_INPUT_MODE_SETTABLE(mode) ==
    mode = AICS_MODE_MANUAL_ONLY \/ mode = AICS_MODE_MANUAL

\* the length guard of write_aics_control
aics_len_bad(cp, len) ==
    \/ len < AICS_CP_LEN
    \/ (len = AICS_CP_SET_GAIN_LEN /\ cp.opcode # AICS_OPCODE_SET_GAIN)
    \/ len > AICS_CP_SET_GAIN_LEN

\* the counter guard of write_aics_control
aics_counter_ok(inst, cp) == cp.counter = inst.change_counter

\* the semantic guard of the opcode's switch case: 0 when it passes
\* (mutant: Unmute and Mute without the Mute Disabled test)
aics_semantic_err_mute_unchecked(inst, cp) ==
    CASE cp.opcode = AICS_OPCODE_SET_GAIN ->
            IF cp.gain_setting < inst.minimum \/ cp.gain_setting > inst.maximum
            THEN AICS_ERR_OUT_OF_RANGE ELSE 0
      [] cp.opcode \in {AICS_OPCODE_UNMUTE, AICS_OPCODE_MUTE} -> 0
      [] cp.opcode \in {AICS_OPCODE_SET_MANUAL, AICS_OPCODE_SET_AUTO} ->
            IF AICS_INPUT_MODE_IMMUTABLE(inst.mode)
            THEN AICS_ERR_GAIN_MODE_NO_SUPPORT ELSE 0
      [] OTHER -> AICS_ERR_OP_NOT_SUPPORTED
aics_semantic_err(inst, cp) ==
    CASE cp.opcode = AICS_OPCODE_SET_GAIN ->
            IF cp.gain_setting < inst.minimum \/ cp.gain_setting > inst.maximum
            THEN AICS_ERR_OUT_OF_RANGE ELSE 0
      [] cp.opcode \in {AICS_OPCODE_UNMUTE, AICS_OPCODE_MUTE} ->
            IF inst.mute = AICS_STATE_MUTE_DISABLED THEN AICS_ERR_MUTE_DISABLED ELSE 0
      [] cp.opcode \in {AICS_OPCODE_SET_MANUAL, AICS_OPCODE_SET_AUTO} ->
            IF AICS_INPUT_MODE_IMMUTABLE(inst.mode)
            THEN AICS_ERR_GAIN_MODE_NO_SUPPORT ELSE 0
      [] OTHER -> AICS_ERR_OP_NOT_SUPPORTED

\* the fields after the opcode's switch case (its guard passed)
aics_new_state(inst, cp) ==
    CASE cp.opcode = AICS_OPCODE_SET_GAIN ->
            IF AICS_INPUT_MODE_SETTABLE(inst.mode)
            THEN [inst EXCEPT !.gain = cp.gain_setting] ELSE inst
      [] cp.opcode = AICS_OPCODE_UNMUTE -> [inst EXCEPT !.mute = AICS_STATE_UNMUTED]
      [] cp.opcode = AICS_OPCODE_MUTE -> [inst EXCEPT !.mute = AICS_STATE_MUTED]
      [] cp.opcode = AICS_OPCODE_SET_MANUAL -> [inst EXCEPT !.mode = AICS_MODE_MANUAL]
      [] cp.opcode = AICS_OPCODE_SET_AUTO -> [inst EXCEPT !.mode = AICS_MODE_AUTO]
      [] OTHER -> inst

aics_counter_inc(inst) == Uint8(inst.change_counter + 1)

\* the "if (notify)" block of write_aics_control
aics_commit(inst, cp) ==
    LET s == [aics_new_state(inst, cp) EXCEPT !.change_counter = aics_counter_inc(inst)]
    IN  Result(s, 0,
               << Event("notify_state", <<s.gain, s.mute, s.mode, s.change_counter>>),
                  Event("cb_state", <<s.gain, s.mute, s.mode>>) >>)

\* cp.gain_setting is the third byte of the buffer (see write_vcs_control).
write_aics_control(inst, cp, len, offset) ==
    IF offset # 0 THEN Result(inst, BT_ATT_ERR_INVALID_OFFSET, <<>>)
    ELSE IF len = 0 THEN Result(inst, BT_ATT_ERR_INVALID_ATTRIBUTE_LEN, <<>>)
    ELSE IF ~VALID_AICS_OPCODE(cp.opcode) THEN Result(inst, AICS_ERR_OP_NOT_SUPPORTED, <<>>)
    ELSE IF aics_len_bad(cp, len) THEN Result(inst, BT_ATT_ERR_INVALID_ATTRIBUTE_LEN, <<>>)
    ELSE IF ~aics_counter_ok(inst, cp) THEN Result(inst, AICS_ERR_INVALID_COUNTER, <<>>)
    ELSE IF aics_semantic_err(inst, cp) # 0
         THEN Result(inst, aics_semantic_err(inst, cp), <<>>)
    ELSE IF aics_new_state(inst, cp) # inst THEN aics_commit(inst, cp)
    ELSE Result(inst, 0, <<>>)

\* ===================================================================
\* State
\* ===================================================================
VARIABLES
    \* --- servers (Spec)
    svc,          \* the service whose control point this behaviour drives
    trace,        \* whether last keeps the request and the instance it met
    vcs_inst,     \* struct vcs_inst_t: volume, mute, change_counter, flags, volume_step
    vocs_inst,    \* struct bt_vocs: state.offset, state.change_counter
    aics_inst,    \* struct bt_aics: state.{gain,mute,mode,change_counter}, gain_settings
    out,          \* the events (notifications, callbacks) of the last operation
    last,         \* the last control-point write: who, counter byte, result
    prev,         \* the control-point write before it
    notified,     \* the counters carried by the state notifications so far
    nOps,         \* operations so far
    \* --- CSIS (CsisSpec)
    csis_inst,    \* struct csis_instance_t: set_lock, lock_client_addr,
                  \* set_lock_timer (pending or not), pend_notify, age_counter
    conns,        \* the connected peers (what bt_conn_foreach visits)
    bonds,        \* the peers the key storage holds a bond for (is_bonded)
    holder,       \* the party whose Lock took the current lock (history)
    clast,        \* the last CSIS event and what it did (history)
    cOps,         \* CSIS events so far, timer expiries not counted
    \* --- clients (ClientSpec); the instance variables above are the peer's server
    cli,          \* the client's instance: busy, write_buf, the cached
                  \* change_counter, control_handle, state_handle
    vcs_buf,      \* VOCS client: the write_buf of the VCS client instance
    att,          \* the GATT requests submitted and not yet completed
    txn,          \* the control-point transaction of the last accepted request (history)
    rlast,        \* the last API request and what it did (history)
    nReq,         \* API requests so far
    nCompete,     \* writes of another client to the same server so far
    \* --- PSRI generation (PsriSpec)
    psri_gen,     \* generate_prand: where it is, *dest, its return value
    drawn,        \* the 24-bit values bt_rand has returned so far (history)
    \* --- instance pools and the VCS attribute table (PoolSpec)
    vocs_pool,    \* vocs_insts[] and its instance_cnt
    aics_pool,    \* aics_insts[] and its instance_cnt
    vcs_tab,      \* user_data of the include placeholders of vcs_attrs, and
                  \* vcs_inst.vocs_insts / vcs_inst.aics_insts (0: NULL)
    given,        \* the instances each pool has handed out, in order (history)
    plast,        \* the last pool or init call and what it returned (history)
    pOps,         \* pool and init calls so far
    \* --- ASCS sessions (AscsSpec); conns and bonds are those above
    sessions,     \* sessions[]: conn (0: NULL), peer (0: BT_ADDR_LE_ANY), ases
    alast,        \* the last ASCS event and what it did (history)
    aOps,         \* ASCS events so far
    \* --- descriptions (DescSpec)
    descr,        \* input_desc of the AICS instance, output_desc of the VOCS instance
    dlast,        \* the last description write and what it did (history)
    \* --- discovery of the VCS client (DiscSpec)
    disc,         \* cur_vcs_inst, discover_params.func, the instance counts of
                  \* vcs_inst, the discovery procedures GATT is running
    xlast,        \* the last discovery event and what it did (history)
    \* --- a counter read long ago (WrapSpec)
    wrap          \* the counter a client read, the changes committed since,
                  \* the write it then made with that counter (history)

\* the state of the components added to the servers
pool_vars == <<vocs_pool, aics_pool, vcs_tab, given, plast, pOps>>

ascs_vars == <<sessions, alast, aOps>>

aux_vars == <<descr, dlast, disc, xlast, wrap>>

ext_vars == <<psri_gen, drawn, pool_vars, ascs_vars, aux_vars>>

srv_vars == <<svc, trace, ext_vars, vcs_inst, vocs_inst, aics_inst, out, last, prev, notified, nOps>>
csis_vars == <<csis_inst, conns, bonds, holder, clast, cOps>>

cli_vars == <<cli, vcs_buf, att, txn, rlast, nReq, nCompete>>

vars == <<srv_vars, csis_vars, cli_vars>>

\* generate_prand has not been called
PsriIdle == [pc |-> "idle", dest |-> 0, res |-> 0]

\* PSRI generation while a behaviour drives another component
PsriOff == psri_gen = PsriIdle /\ drawn = <<>>

\* no pool or init call yet
NoPoolCall == [op |-> "none", ret |-> "0", inst |-> 0]

\* the pools while a behaviour drives another component
PoolOff ==
    /\ vocs_pool = [instance_cnt |-> 0, inst |-> <<>>]
    /\ aics_pool = [instance_cnt |-> 0, inst |-> <<>>]
    /\ vcs_tab = [user_data |-> <<>>, vocs_insts |-> <<>>, aics_insts |-> <<>>]
    /\ given = [vocs |-> <<>>, aics |-> <<>>]
    /\ plast = NoPoolCall /\ pOps = 0

\* no ASCS event yet
NoAscsEvent == [op |-> "none", conn |-> 0, err |-> 0, session |-> 0,
                null_deref |-> FALSE, fault |-> FALSE, rsp |-> <<>>,
                bonded |-> FALSE, pre |-> <<>>]

\* ASCS while a behaviour drives another component
AscsOff == sessions = <<>> /\ alast = NoAscsEvent /\ aOps = 0

\* the added components while a behaviour drives another one
\* no description write yet
NoDescWrite == [op |-> "none", s |-> <<>>, pre |-> <<>>, ret |-> 0,
                notified |-> <<>>, cb |-> <<>>, n |-> 0]

\* the descriptions while a behaviour drives another component
DescOff == descr = [input_desc |-> <<>>, output_desc |-> <<>>] /\ dlast = NoDescWrite

\* the VCS client before any discovery
DiscIdle == [cur_vcs |-> FALSE, func |-> "none", handles |-> FALSE, aics_cnt |-> 0,
             vocs_cnt |-> 0, cur_aics |-> 0, cur_vocs |-> 0, inflight |-> 0]

\* no discovery event yet
NoDiscEvent == [op |-> "none", ret |-> "OK", cb |-> <<>>, pre |-> DiscIdle,
                pre_running |-> FALSE, running |-> FALSE, overlapped |-> FALSE,
                calls |-> 0, steps |-> 0]

DiscOff == disc = DiscIdle /\ xlast = NoDiscEvent

\* no counter read yet
NoWrap == [stale |-> 0, k |-> 0, op |-> "none", err |-> 0, rq |-> <<>>, pre |-> <<>>]

WrapOff == wrap = NoWrap

AuxOff == DescOff /\ DiscOff /\ WrapOff

ExtOff == PsriOff /\ PoolOff /\ AscsOff /\ AuxOff

Peers == 1 .. NumPeers
\* conn == NULL: the local application
LOCAL_CONN == 0

\* ---------------------------------------------------------------- inputs
Rq(opcode, counter, operand, len, offset) ==
    [opcode |-> opcode, counter |-> counter, operand |-> operand, len |-> len,
     offset |-> offset]

\* No control-point write yet.  rq is the request of the write and pre the
\* instance it met.
NoWrite == [src |-> -1, ctr |-> 0, before_ctr |-> 0, after_ctr |-> 0, wf |-> FALSE,
            err |-> 0, chg |-> FALSE, nchg |-> 0, same |-> TRUE,
            rq |-> Rq(0, 0, 0, 0, 0), pre |-> [change_counter |-> 0], ret |-> 0]
\* the counter byte of a request: the current counter or the one before it
CounterBytes(c) == {c, Uint8(c + 255)}
VcsVolumes == {0, 200}
VocsOffsets == {-256, -255, 0, 255, 256}
AicsGains == {-11, 0, 10}
VolumeSteps == {0, 100}

\* The ATT writes a peer sends to the VCS control point when the counter is c.
\* Well-formed ones: every opcode at the length it implies, with the current
\* counter or a stale one.  Malformed ones: other lengths 0..4, an unknown
\* opcode, a non-zero offset, some of them with a stale counter as well.
\* operand is the third byte of the buffer (for a write of fewer than three
\* bytes: the byte that happens to follow it).
VcsRequests(c) ==
    UNION { { Rq(op, cb, 0, 2, 0) : op \in (0 .. 6) \ {VCS_OPCODE_SET_ABS_VOL} }
            \cup { Rq(VCS_OPCODE_SET_ABS_VOL, cb, v, 3, 0) : v \in VcsVolumes }
            : cb \in CounterBytes(c) }
    \cup { Rq(VCS_OPCODE_SET_ABS_VOL, c, 200, len, 0) : len \in {0, 1, 2, 4} }
    \cup { Rq(VCS_OPCODE_REL_VOL_DOWN, c, 200, len, 0) : len \in {1, 3} }
    \cup { Rq(VCS_OPCODE_MUTE, Uint8(c + 255), 0, 3, 0), Rq(7, c, 0, 2, 0),
           Rq(7, Uint8(c + 255), 0, 3, 0), Rq(VCS_OPCODE_MUTE, c, 0, 2, 1),
           Rq(7, Uint8(c + 255), 0, 4, 1) }

VocsRequests(c) ==
    UNION { { Rq(VOCS_OPCODE_SET_OFFSET, cb, o, 4, 0) : o \in VocsOffsets }
            : cb \in CounterBytes(c) }
    \cup { Rq(VOCS_OPCODE_SET_OFFSET, c, 255, len, 0) : len \in {0, 1, 3, 5} }
    \cup { Rq(VOCS_OPCODE_SET_OFFSET, Uint8(c + 255), 255, 3, 0), Rq(0, c, 255, 4, 0),
           Rq(0, Uint8(c + 255), 255, 3, 0), Rq(VOCS_OPCODE_SET_OFFSET, c, 255, 4, 1),
           Rq(0, Uint8(c + 255), 255, 3, 1), Rq(0, c, 256, 4, 1) }

AicsRequests(c) ==
    UNION { { Rq(op, cb, 0, 2, 0) : op \in 2 .. 5 }
            \cup { Rq(AICS_OPCODE_SET_GAIN, cb, g, 3, 0) : g \in AicsGains }
            : cb \in CounterBytes(c) }
    \cup { Rq(AICS_OPCODE_SET_GAIN, c, 10, len, 0) : len \in {0, 1, 2, 4} }
    \cup { Rq(AICS_OPCODE_MUTE, c, 10, len, 0) : len \in {1, 3} }
    \cup { Rq(AICS_OPCODE_MUTE, Uint8(c + 255), 10, 3, 0), Rq(0, c, 0, 2, 0),
           Rq(6, Uint8(c + 255), 0, 3, 0), Rq(AICS_OPCODE_MUTE, c, 0, 2, 1),
           Rq(6, Uint8(c + 255), 0, 4, 1) }

\* A write whose offset, opcode and length pass the first three guards of the
\* control-point pattern (the length the opcode implies).
WellFormedVcs(cp, len, offset) ==
    /\ offset = 0
    /\ cp.opcode \in 0 .. 6
    /\ len = (IF cp.opcode = VCS_OPCODE_SET_ABS_VOL THEN 3 ELSE 2)
WellFormedVocs(cp, len, offset) ==
    offset = 0 /\ cp.opcode = VOCS_OPCODE_SET_OFFSET /\ len = 4
WellFormedAics(cp, len, offset) ==
    /\ offset = 0
    /\ cp.opcode \in 1 .. 5
    /\ len = (IF cp.opcode = AICS_OPCODE_SET_GAIN THEN 3 ELSE 2)

\* the fields of the State characteristic other than the counter
VcsState(vi) == <<vi.volume, vi.mute>>
VocsState(inst) == <<inst.offset>>
AicsState(inst) == <<inst.gain, inst.mute, inst.mode>>

\* the number of fields in which two values of the State characteristic differ
Changed(a, b) == Cardinality({ i \in 1 .. Len(a) : a[i] # b[i] })

\* the counters carried by the state notifications among events
RECURSIVE StateCounters(_)
StateCounters(events) ==
    IF events = <<>> THEN <<>>
    ELSE (IF Head(events).ev = "notify_state"
          THEN <<Head(events).v[Len(Head(events).v)]>> ELSE <<>>)
         \o StateCounters(Tail(events))

\* what an operation leaves in the history variables
Record(src, ctr, before_ctr, wf, r, nchg, same, rq, pre, ret) ==
    /\ out' = r.events
    /\ prev' = [last EXCEPT !.rq = NoWrite.rq, !.pre = NoWrite.pre,
                            !.ret = NoWrite.ret]
    /\ last' = [src |-> src, ctr |-> ctr, before_ctr |-> before_ctr,
                after_ctr |-> r.inst.change_counter, wf |-> wf,
                err |-> r.err, chg |-> nchg > 0, nchg |-> nchg, same |-> same,
                rq |-> IF trace THEN rq ELSE NoWrite.rq,
                pre |-> IF trace THEN pre ELSE NoWrite.pre,
                ret |-> IF trace THEN ret ELSE NoWrite.ret]
    /\ notified' = notified \o StateCounters(r.events)
    /\ nOps' = nOps + 1

\* ------------------------------------------------------------ VCS actions
\* A peer's ATT write to the VCS control point.  tail is the byte after a
\* write shorter than three bytes, which the handler may read as cp->volume.
VcsWrite(p, rq) ==
    /\ svc = "vcs" /\ nOps < MaxOps
    /\ LET cp == [opcode |-> rq.opcode, counter |-> rq.counter, volume |-> rq.operand]
           r == write_vcs_control(vcs_inst, cp, rq.len, rq.offset)
       IN  /\ vcs_inst' = r.inst
           /\ Record(p, rq.counter, vcs_inst.change_counter,
                     WellFormedVcs(cp, rq.len, rq.offset), r,
                     Changed(VcsState(r.inst), VcsState(vcs_inst)), r.inst = vcs_inst,
                     rq, vcs_inst, handler_ret(r, rq.len))
    /\ UNCHANGED <<svc, trace, ext_vars, vocs_inst, aics_inst, csis_vars, cli_vars>>

\* bt_vcs_volume_down/up, bt_vcs_unmute_volume_down/up, bt_vcs_volume_set,
\* bt_vcs_unmute, bt_vcs_mute with conn == NULL
bt_vcs_local(opcode, volume) ==
    /\ svc = "vcs" /\ nOps < MaxOps
    /\ opcode \in 0 .. 6
    /\ LET cp == [opcode |-> opcode, counter |-> vcs_inst.change_counter,
                  volume |-> IF opcode = VCS_OPCODE_SET_ABS_VOL THEN volume ELSE 0]
           len == IF opcode = VCS_OPCODE_SET_ABS_VOL THEN VCS_CP_ABS_VOL_LEN
                  ELSE VCS_CP_LEN
           r == write_vcs_control(vcs_inst, cp, len, 0)
       IN  /\ vcs_inst' = r.inst
           /\ Record(LOCAL_CONN, cp.counter, vcs_inst.change_counter,
                     WellFormedVcs(cp, len, 0), r,
                     Changed(VcsState(r.inst), VcsState(vcs_inst)), r.inst = vcs_inst,
                     Rq(opcode, cp.counter, cp.volume, len, 0), vcs_inst,
                     local_ret(handler_ret(r, len)))
    /\ UNCHANGED <<svc, trace, ext_vars, vocs_inst, aics_inst, csis_vars, cli_vars>>

\* bt_vcs_volume_step_set: stores a step > 0 (and returns -EOPNOTSUPP),
\* rejects 0 with -EINVAL
volume_step_set(vi, volume_step) ==
    IF volume_step > 0
    THEN [inst |-> [vi EXCEPT !.volume_step = volume_step], ret |-> "-EOPNOTSUPP"]
    ELSE [inst |-> vi, ret |-> "-EINVAL"]

bt_vcs_volume_step_set(volume_step) ==
    /\ svc = "vcs" /\ nOps < MaxOps
    /\ vcs_inst' = volume_step_set(vcs_inst, volume_step).inst
    /\ out' = IF trace
              THEN << Event("bt_vcs_volume_step_set",
                            [step |-> volume_step, pre |-> vcs_inst,
                             ret |-> volume_step_set(vcs_inst, volume_step).ret]) >>
              ELSE <<>>
    /\ prev' = NoWrite /\ last' = NoWrite
    /\ nOps' = nOps + 1
    /\ UNCHANGED <<svc, trace, ext_vars, vocs_inst, aics_inst, notified, csis_vars, cli_vars>>

\* ----------------------------------------------------------- VOCS actions
VocsWrite(p, rq) ==
    /\ svc = "vocs" /\ nOps < MaxOps
    /\ LET cp == [opcode |-> rq.opcode, counter |-> rq.counter, offset |-> rq.operand]
           r == write_vocs_control(vocs_inst, cp, rq.len, rq.offset)
       IN  /\ vocs_inst' = r.inst
           /\ Record(p, rq.counter, vocs_inst.change_counter,
                     WellFormedVocs(cp, rq.len, rq.offset), r,
                     Changed(VocsState(r.inst), VocsState(vocs_inst)), r.inst = vocs_inst,
                     rq, vocs_inst, handler_ret(r, rq.len))
    /\ UNCHANGED <<svc, trace, ext_vars, vcs_inst, aics_inst, csis_vars, cli_vars>>

bt_vocs_state_set(offset_val) ==
    /\ svc = "vocs" /\ nOps < MaxOps
    /\ LET cp == [opcode |-> VOCS_OPCODE_SET_OFFSET,
                  counter |-> vocs_inst.change_counter, offset |-> offset_val]
           r == write_vocs_control(vocs_inst, cp, VOCS_CP_LEN, 0)
       IN  /\ vocs_inst' = r.inst
           /\ Record(LOCAL_CONN, cp.counter, vocs_inst.change_counter,
                     WellFormedVocs(cp, VOCS_CP_LEN, 0), r,
                     Changed(VocsState(r.inst), VocsState(vocs_inst)), r.inst = vocs_inst,
                     Rq(cp.opcode, cp.counter, offset_val, VOCS_CP_LEN, 0), vocs_inst,
                     local_ret(handler_ret(r, VOCS_CP_LEN)))
    /\ UNCHANGED <<svc, trace, ext_vars, vcs_inst, aics_inst, csis_vars, cli_vars>>

\* ----------------------------------------------------------- AICS actions
AicsWrite(p, rq) ==
    /\ svc = "aics" /\ nOps < MaxOps
    /\ LET cp == [opcode |-> rq.opcode, counter |-> rq.counter,
                  gain_setting |-> rq.operand]
           r == write_aics_control(aics_inst, cp, rq.len, rq.offset)
       IN  /\ aics_inst' = r.inst
           /\ Record(p, rq.counter, aics_inst.change_counter,
                     WellFormedAics(cp, rq.len, rq.offset), r,
                     Changed(AicsState(r.inst), AicsState(aics_inst)), r.inst = aics_inst,
                     rq, aics_inst, handler_ret(r, rq.len))
    /\ UNCHANGED <<svc, trace, ext_vars, vcs_inst, vocs_inst, csis_vars, cli_vars>>

\* bt_aics_input_unmute/mute, bt_aics_manual/automatic_input_gain_set and
\* bt_aics_gain_set: each passes sizeof(struct aics_gain_control_t) = 3 as
\* the length; gain is the third byte (not initialised unless Set Gain).
bt_aics_local(opcode, gain) ==
    /\ svc = "aics" /\ nOps < MaxOps
    /\ opcode \in 1 .. 5
    /\ LET cp == [opcode |-> opcode, counter |-> aics_inst.change_counter,
                  gain_setting |-> gain]
           r == write_aics_control(aics_inst, cp, AICS_CP_SET_GAIN_LEN, 0)
       IN  /\ aics_inst' = r.inst
           /\ Record(LOCAL_CONN, cp.counter, aics_inst.change_counter,
                     WellFormedAics(cp, AICS_CP_SET_GAIN_LEN, 0), r,
                     Changed(AicsState(r.inst), AicsState(aics_inst)), r.inst = aics_inst,
                     Rq(opcode, cp.counter, gain, AICS_CP_SET_GAIN_LEN, 0), aics_inst,
                     local_ret(handler_ret(r, AICS_CP_SET_GAIN_LEN)))
    /\ UNCHANGED <<svc, trace, ext_vars, vcs_inst, vocs_inst, csis_vars, cli_vars>>

\* ------------------------------------------------------ bt_*_init
\* What an init call returns: 0, -EINVAL, -EALREADY or the error of
\* bt_gatt_service_register.
InitResult(inst, ret) == [inst |-> inst, ret |-> ret]

\* bt_vocs_init(vocs, init) with init # NULL.  The offset is checked before
\* anything is assigned; the instance is marked initialized only once the
\* service is registered (reg_ok).
bt_vocs_init(vocs, init, reg_ok) ==
    IF vocs.initialized THEN InitResult(vocs, "-EALREADY")
    ELSE IF init.offset > VOCS_MAX_OFFSET \/ init.offset < VOCS_MIN_OFFSET
         THEN InitResult(vocs, "-EINVAL")
    ELSE LET s == [vocs EXCEPT !.offset = init.offset]
         IN  IF reg_ok THEN InitResult([s EXCEPT !.initialized = TRUE], "0")
             ELSE InitResult(s, "register")

\* bt_aics_init(aics, init) with init # NULL.  mute, mode and input_type are
\* checked (input_type is an int8_t and AICS_INPUT_TYPE_OTHER is 0x255, which
\* no int8_t equals); gain, min_gain and max_gain are stored as given.
bt_aics_init(aics, init, reg_ok) ==
    IF aics.initialized THEN InitResult(aics, "-EALREADY")
    ELSE IF \/ init.mute > AICS_STATE_MUTE_DISABLED
            \/ init.mode > AICS_MODE_AUTO
            \/ (init.input_type > AICS_INPUT_TYPE_NETWORK
                  /\ init.input_type # AICS_INPUT_TYPE_OTHER)
         THEN InitResult(aics, "-EINVAL")
    ELSE LET s == [aics EXCEPT !.gain = init.gain, !.mute = init.mute,
                               !.mode = init.mode, !.units = init.units,
                               !.minimum = init.min_gain,
                               !.maximum = init.max_gain,
                               !.type = Uint8(init.input_type)]
         IN  IF reg_ok THEN InitResult([s EXCEPT !.initialized = TRUE], "0")
             ELSE InitResult(s, "register")

\* An init call is no control-point write: last and prev forget the writes
\* before it, out holds the call, the instance it met and what it returned.
InitCall(name, init, pre, r) ==
    /\ out' = << Event(name, [init |-> init, pre |-> pre, ret |-> r.ret]) >>
    /\ prev' = NoWrite /\ last' = NoWrite
    /\ nOps' = nOps + 1
    /\ UNCHANGED notified

VocsInit(init, reg_ok) ==
    /\ svc = "vocs" /\ nOps < MaxOps
    /\ LET r == bt_vocs_init(vocs_inst, init, reg_ok)
       IN  /\ vocs_inst' = r.inst
           /\ InitCall("bt_vocs_init", init, vocs_inst, r)
    /\ UNCHANGED <<svc, trace, ext_vars, vcs_inst, aics_inst, csis_vars, cli_vars>>

AicsInit(init, reg_ok) ==
    /\ svc = "aics" /\ nOps < MaxOps
    /\ LET r == bt_aics_init(aics_inst, init, reg_ok)
       IN  /\ aics_inst' = r.inst
           /\ InitCall("bt_aics_init", init, aics_inst, r)
    /\ UNCHANGED <<svc, trace, ext_vars, vcs_inst, vocs_inst, csis_vars, cli_vars>>

\* ------------------------------------------------------------------ Init
\* The instances start in states the servers can be in: the VCS instance of
\* the static initialiser (volume 100, step 1) or later in a session (flags
\* is latched by the first volume opcode, so volume # 100 implies flags = 1);
\* VOCS and AICS instances as bt_vocs_init / bt_aics_init leave them or later
\* in a session.  The counter starts at 0 or next to its wrap-around.
VcsInitStates ==
    { [volume |-> t[1], mute |-> t[2], flags |-> t[3], change_counter |-> c,
       volume_step |-> 1] :
      t \in { <<100, 0, 0>>, <<100, 1, 0>>, <<100, 0, 1>>, <<0, 0, 1>>, <<255, 1, 1>> },
      c \in {0, 255} }
VocsInitStates ==
    { [offset |-> o, change_counter |-> c, initialized |-> TRUE] :
      o \in {-255, 0, 255}, c \in {0, 255} }
AicsInitStates ==
    { [gain |-> 0, mute |-> t[1], mode |-> t[2], change_counter |-> c,
       units |-> 1, minimum |-> -10, maximum |-> 10, type |-> 0,
       initialized |-> TRUE] :
      t \in { <<AICS_STATE_UNMUTED, AICS_MODE_MANUAL>>,
              <<AICS_STATE_MUTED, AICS_MODE_AUTO>>,
              <<AICS_STATE_MUTE_DISABLED, AICS_MODE_MANUAL_ONLY>>,
              <<AICS_STATE_UNMUTED, AICS_MODE_AUTO_ONLY>>,
              <<AICS_STATE_MUTE_DISABLED, AICS_MODE_AUTO>> },
      c \in {0, 255} }

VcsDefault == [volume |-> 100, mute |-> 0, flags |-> 0, change_counter |-> 0,
               volume_step |-> 1]
VocsDefault == [offset |-> 0, change_counter |-> 0, initialized |-> TRUE]
AicsDefault == [gain |-> 0, mute |-> 0, mode |-> 0, change_counter |-> 0,
                units |-> 1, minimum |-> -10, maximum |-> 10, type |-> 0,
                initialized |-> TRUE]

SrvInit ==
    /\ svc \in {"vcs", "vocs", "aics"} /\ trace = FALSE /\ ExtOff
    /\ vcs_inst \in (IF svc = "vcs" THEN VcsInitStates ELSE {VcsDefault})
    /\ vocs_inst \in (IF svc = "vocs" THEN VocsInitStates ELSE {VocsDefault})
    /\ aics_inst \in (IF svc = "aics" THEN AicsInitStates ELSE {AicsDefault})
    /\ out = <<>>
    /\ last = NoWrite /\ prev = NoWrite
    /\ notified = <<>>
    /\ nOps = 0

\* ===================================================================
\* CSIS: the set lock
\* ===================================================================
\* static bt_addr_le_t server_dummy_addr: the 0'ed address.  A peer's address
\* is its number in Peers.
server_dummy_addr == 0
CONFIG_BT_KEYS_OVERWRITE_OLDEST == TRUE

\* struct csis_pending_notifications_t after memset(.., 0, ..)
EmptyEntry == [addr |-> server_dummy_addr, pending |-> FALSE, active |-> FALSE, age |-> 0]

\* csis_inst as bt_csis_init leaves it
CsisDefault ==
    [set_lock |-> BT_CSIP_RELEASE_VALUE, lock_client_addr |-> server_dummy_addr,
     set_lock_timer |-> FALSE, pend_notify |-> [i \in 1 .. MaxPaired |-> EmptyEntry],
     age_counter |-> 0]

\* what a CSIS handler returns: the instance, the ATT error (0: none), the
\* connections notify_lock_value was called for, the locked callbacks made
CResult(inst, err, sent, cb) == [inst |-> inst, err |-> err, sent |-> sent, cb |-> cb]

is_bonded(conn) == conn \in bonds

is_last_client_to_write(ci, conn) ==
    IF conn # LOCAL_CONN THEN conn = ci.lock_client_addr
    ELSE server_dummy_addr = ci.lock_client_addr

\* the index of the first pending entry holding addr, 0 if there is none
FirstPending(pn, addr) ==
    LET S == { i \in DOMAIN pn : pn[i].pending /\ pn[i].addr = addr }
    IN  IF S = {} THEN 0 ELSE CHOOSE i \in S : \A j \in S : i <= j

\* notify_client skipping no connection
notify_targets_all(excluded_client, cs) == cs

\* the connections notify_client does not skip
notify_targets(excluded_client, cs) ==
    { c \in cs : ~(excluded_client # LOCAL_CONN /\ c = excluded_client) }

\* notify_clients with notify_client run for every connection in cs
notify_clients(ci, excluded_client, cs) ==
    LET pn == ci.pend_notify
        marked == [i \in DOMAIN pn |->
                    IF pn[i].active /\ ~(excluded_client # LOCAL_CONN
                                         /\ pn[i].addr = excluded_client)
                    THEN [pn[i] EXCEPT !.pending = TRUE] ELSE pn[i]]
        targets == notify_targets(excluded_client, cs)
        cleared == [i \in DOMAIN pn |->
                     IF \E c \in targets : i = FirstPending(marked, c)
                     THEN [marked[i] EXCEPT !.pending = FALSE] ELSE marked[i]]
    IN  [inst |-> [ci EXCEPT !.pend_notify = cleared], sent |-> targets]

\* the checks write_set_lock makes while the lock is Locked: the error, 0 if none
csis_lock_check_any_release(ci, conn, val) ==
    IF ci.set_lock = BT_CSIP_LOCK_VALUE /\ val = BT_CSIP_LOCK_VALUE
    THEN BT_CSIP_ERROR_LOCK_DENIED ELSE 0
csis_lock_check(ci, conn, val) ==
    IF ci.set_lock = BT_CSIP_LOCK_VALUE
    THEN IF val = BT_CSIP_LOCK_VALUE THEN BT_CSIP_ERROR_LOCK_DENIED
         ELSE IF ~is_last_client_to_write(ci, conn)
              THEN BT_CSIP_ERROR_LOCK_RELEASE_DENIED ELSE 0
    ELSE 0

\* k_delayed_work_submit(&csis_inst.set_lock_timer, 60 s): the work is pending
lock_timer_not_submitted(pending) == pending
lock_timer_submit(pending) == TRUE

\* the assignments of write_set_lock once the value is accepted
csis_set_lock(ci, conn, val) ==
    IF val = BT_CSIP_LOCK_VALUE
    THEN [ci EXCEPT !.set_lock = val,
                    !.lock_client_addr = IF conn # LOCAL_CONN THEN conn ELSE @,
                    !.set_lock_timer = lock_timer_submit(@)]
    ELSE [ci EXCEPT !.set_lock = val,
                    !.lock_client_addr = server_dummy_addr,
                    !.set_lock_timer = FALSE]

write_set_lock(ci, conn, val, len, offset, cs) ==
    IF offset # 0 THEN CResult(ci, BT_ATT_ERR_INVALID_OFFSET, {}, <<>>)
    ELSE IF len # 1 THEN CResult(ci, BT_ATT_ERR_INVALID_ATTRIBUTE_LEN, {}, <<>>)
    ELSE IF val # BT_CSIP_RELEASE_VALUE /\ val # BT_CSIP_LOCK_VALUE
    THEN CResult(ci, BT_CSIP_ERROR_LOCK_INVAL_VALUE, {}, <<>>)
    ELSE IF csis_lock_check(ci, conn, val) # 0
    THEN CResult(ci, csis_lock_check(ci, conn, val), {}, <<>>)
    ELSE LET notify == ci.set_lock # val
             set == csis_set_lock(ci, conn, val)
             n == notify_clients(set, conn, cs)
         IN  IF notify
             THEN CResult(n.inst, 0, n.sent,
                          <<[conn |-> conn, locked |-> val = BT_CSIP_LOCK_VALUE]>>)
             ELSE CResult(set, 0, {}, <<>>)

\* the delayed work has run: it is no longer pending
set_lock_timer_handler(ci, cs) ==
    LET n == notify_clients([ci EXCEPT !.set_lock = BT_CSIP_RELEASE_VALUE,
                                       !.set_lock_timer = FALSE], LOCAL_CONN, cs)
    IN  CResult(n.inst, 0, n.sent, <<[conn |-> LOCAL_CONN, locked |-> FALSE]>>)

\* cs: the connections that remain
csis_disconnected(ci, conn, cs) ==
    IF is_bonded(conn) THEN CResult(ci, 0, {}, <<>>)
    ELSE LET rel == IF is_last_client_to_write(ci, conn)
                    THEN notify_clients(
                             [ci EXCEPT !.lock_client_addr = server_dummy_addr,
                                        !.set_lock = BT_CSIP_RELEASE_VALUE],
                             LOCAL_CONN, cs)
                    ELSE [inst |-> ci, sent |-> {}]
             pn == rel.inst.pend_notify
             S == { i \in DOMAIN pn : pn[i].addr = conn }
             wiped == [i \in DOMAIN pn |->
                        IF S # {} /\ i = (CHOOSE m \in S : \A j \in S : m <= j)
                        THEN EmptyEntry ELSE pn[i]]
         IN  CResult([rel.inst EXCEPT !.pend_notify = wiped], 0, rel.sent,
                     IF is_last_client_to_write(ci, conn)
                     THEN <<[conn |-> conn, locked |-> FALSE]>> ELSE <<>>)

\* the entry auth_pairing_complete overwrites when no slot is free: the first
\* of the smallest age
oldest_entry(pn) ==
    CHOOSE i \in DOMAIN pn :
        /\ \A j \in DOMAIN pn : pn[i].age <= pn[j].age
        /\ \A j \in DOMAIN pn : pn[j].age = pn[i].age => i <= j

\* the overwritten entry keeping what memset clears
evict_entry_keep(old, conn, age) == [old EXCEPT !.addr = conn, !.active = TRUE, !.age = age]

\* memset(oldest, 0, sizeof(*oldest)), then addr, active and age are set
evict_entry(old, conn, age) ==
    [EmptyEntry EXCEPT !.addr = conn, !.active = TRUE, !.age = age]

\* auth_pairing_complete as built with CONFIG_BT_KEYS_OVERWRITE_OLDEST set
\* (overwrite_oldest) or not: without it no age is stored, age_counter is not
\* advanced and a full table is left as it is
auth_pairing_complete_cfg(ci, conn, bonded, overwrite_oldest) ==
    LET pn == ci.pend_notify
        known == { i \in DOMAIN pn : pn[i].active /\ pn[i].addr = conn }
        free == { i \in DOMAIN pn : ~pn[i].active }
        k == CHOOSE i \in known : \A j \in known : i <= j
        f == CHOOSE i \in free : \A j \in free : i <= j
        aged(e) == IF overwrite_oldest THEN [e EXCEPT !.age = ci.age_counter] ELSE e
        next_age == IF overwrite_oldest THEN ci.age_counter + 1 ELSE ci.age_counter
    IN  IF ~bonded THEN ci
        ELSE IF known # {}
        THEN [ci EXCEPT !.pend_notify[k] = aged(pn[k]), !.age_counter = next_age]
        ELSE IF free # {}
        THEN [ci EXCEPT !.pend_notify[f] = aged([pn[f] EXCEPT !.addr = conn, !.active = TRUE]),
                        !.age_counter = next_age]
        ELSE IF overwrite_oldest
        THEN [ci EXCEPT !.pend_notify[oldest_entry(pn)] =
                            evict_entry(pn[oldest_entry(pn)], conn, ci.age_counter),
                        !.age_counter = next_age]
        ELSE ci

auth_pairing_complete(ci, conn, bonded) ==
    auth_pairing_complete_cfg(ci, conn, bonded, CONFIG_BT_KEYS_OVERWRITE_OLDEST)

csis_security_changed(ci, conn) ==
    LET i == FirstPending(ci.pend_notify, conn)
    IN  IF ~is_bonded(conn) \/ i = 0 THEN CResult(ci, 0, {}, <<>>)
        ELSE CResult([ci EXCEPT !.pend_notify[i].pending = FALSE], 0, {conn}, <<>>)

bt_csis_lock(ci, lock, force, cs) ==
    IF ~lock /\ force
    THEN LET n == notify_clients([ci EXCEPT !.set_lock = BT_CSIP_RELEASE_VALUE],
                                 LOCAL_CONN, cs)
         IN  CResult(n.inst, 0, n.sent, <<[conn |-> LOCAL_CONN, locked |-> FALSE]>>)
    ELSE write_set_lock(ci, LOCAL_CONN,
                        IF lock THEN BT_CSIP_LOCK_VALUE ELSE BT_CSIP_RELEASE_VALUE,
                        1, 0, cs)

\* ----------------------------------------------------------- CSIS actions
\* No CSIS event yet.
NoEvent == [op |-> "none", conn |-> LOCAL_CONN, val |-> 0, err |-> 0,
            pre_lock |-> BT_CSIP_RELEASE_VALUE, pre_addr |-> server_dummy_addr,
            pre_timer |-> FALSE, pre_holder |-> {}, sent |-> {}, cb |-> <<>>,
            wf |-> FALSE, same |-> TRUE]

\* what a CSIS event leaves in the instance and the history variables (wf: a
\* write of one byte at offset 0).  The
\* holder is the party whose Lock moved the lock from Released to Locked.
CRecord(op, conn, val, wf, r) ==
    /\ csis_inst' = r.inst
    /\ clast' = [op |-> op, conn |-> conn, val |-> val, err |-> r.err,
                 pre_lock |-> csis_inst.set_lock,
                 pre_addr |-> csis_inst.lock_client_addr,
                 pre_timer |-> csis_inst.set_lock_timer,
                 pre_holder |-> holder, sent |-> r.sent, cb |-> r.cb,
                 wf |-> wf, same |-> r.inst = csis_inst]
    /\ holder' = IF r.inst.set_lock = BT_CSIP_RELEASE_VALUE THEN {}
                 ELSE IF csis_inst.set_lock = BT_CSIP_RELEASE_VALUE THEN {conn}
                 ELSE holder

\* the writes a peer sends to the Set Lock characteristic: <<value, len, offset>>
CsisRequests ==
    { <<BT_CSIP_RELEASE_VALUE, 1, 0>>, <<BT_CSIP_LOCK_VALUE, 1, 0>>, <<3, 1, 0>>,
      <<BT_CSIP_LOCK_VALUE, 2, 0>>, <<BT_CSIP_RELEASE_VALUE, 1, 1>> }

\* a connected peer's ATT write to Set Lock
CsisWrite(p, rq) ==
    /\ svc = "csis" /\ cOps < MaxCsisOps
    /\ p \in conns
    /\ CRecord("write", p, rq[1], rq[2] = 1 /\ rq[3] = 0,
               write_set_lock(csis_inst, p, rq[1], rq[2], rq[3], conns))
    /\ cOps' = cOps + 1
    /\ UNCHANGED <<srv_vars, cli_vars, conns, bonds>>

\* the application calls bt_csis_lock(lock, force)
CsisLocalLock(lock, force) ==
    /\ svc = "csis" /\ cOps < MaxCsisOps
    /\ CRecord(IF ~lock /\ force THEN "force" ELSE "local", LOCAL_CONN,
               IF lock THEN BT_CSIP_LOCK_VALUE ELSE BT_CSIP_RELEASE_VALUE, TRUE,
               bt_csis_lock(csis_inst, lock, force, conns))
    /\ cOps' = cOps + 1
    /\ UNCHANGED <<srv_vars, cli_vars, conns, bonds>>

\* the 60 s of the pending delayed work have passed
CsisTimer ==
    /\ svc = "csis"
    /\ csis_inst.set_lock_timer
    /\ CRecord("timer", LOCAL_CONN, BT_CSIP_RELEASE_VALUE, TRUE,
               set_lock_timer_handler(csis_inst, conns))
    /\ UNCHANGED <<srv_vars, cli_vars, conns, bonds, cOps>>

\* a peer connects (CSIS registers no connected callback)
CsisConnect(p) ==
    /\ svc = "csis" /\ cOps < MaxCsisOps
    /\ p \notin conns
    /\ conns' = conns \cup {p}
    /\ CRecord("connect", p, 0, TRUE, CResult(csis_inst, 0, {}, <<>>))
    /\ cOps' = cOps + 1
    /\ UNCHANGED <<srv_vars, cli_vars, bonds>>

CsisDisconnect(p) ==
    /\ svc = "csis" /\ cOps < MaxCsisOps
    /\ p \in conns
    /\ conns' = conns \ {p}
    /\ CRecord("disconnect", p, 0, TRUE, csis_disconnected(csis_inst, p, conns \ {p}))
    /\ cOps' = cOps + 1
    /\ UNCHANGED <<srv_vars, cli_vars, bonds>>

\* pairing with a connected peer completes; with bonding the key storage
\* holds a bond for the peer, and (keys and pend_notify entries being 1-to-1)
\* drops the bond of the entry that is overwritten
CsisPairingComplete(p, bonded) ==
    /\ svc = "csis" /\ cOps < MaxCsisOps
    /\ p \in conns
    /\ csis_inst.age_counter < MaxAge
    /\ LET ci == auth_pairing_complete(csis_inst, p, bonded)
           gone == { csis_inst.pend_notify[i].addr : i \in 1 .. MaxPaired }
                   \ { ci.pend_notify[i].addr : i \in 1 .. MaxPaired }
       IN  /\ CRecord("pairing", p, IF bonded THEN 1 ELSE 0, TRUE, CResult(ci, 0, {}, <<>>))
           /\ bonds' = IF bonded THEN (bonds \ gone) \cup {p} ELSE bonds
    /\ cOps' = cOps + 1
    /\ UNCHANGED <<srv_vars, cli_vars, conns>>

\* the security level of a connection changed (err: the security error)
CsisSecurityChanged(p, err) ==
    /\ svc = "csis" /\ cOps < MaxCsisOps
    /\ p \in conns
    /\ CRecord("security", p, err, TRUE, csis_security_changed(csis_inst, p))
    /\ cOps' = cOps + 1
    /\ UNCHANGED <<srv_vars, cli_vars, conns, bonds>>

\* the application removes a peer's bond (bt_unpair)
CsisUnpair(p) ==
    /\ svc = "csis" /\ cOps < MaxCsisOps
    /\ p \in bonds
    /\ bonds' = bonds \ {p}
    /\ CRecord("unpair", p, 0, TRUE, CResult(csis_inst, 0, {}, <<>>))
    /\ cOps' = cOps + 1
    /\ UNCHANGED <<srv_vars, cli_vars, conns>>

\* the servers while a behaviour drives another component
SrvOff ==
    /\ vcs_inst = VcsDefault /\ vocs_inst = VocsDefault /\ aics_inst = AicsDefault
    /\ out = <<>> /\ last = NoWrite /\ prev = NoWrite /\ notified = <<>> /\ nOps = 0

\* CSIS while a behaviour drives another component
CsisOff ==
    /\ csis_inst = CsisDefault /\ conns = {} /\ bonds = {} /\ holder = {}
    /\ clast = NoEvent /\ cOps = 0

\* ===================================================================
\* The clients: control-point transactions of VCS, VOCS and AICS
\* ===================================================================
\* A client instance: busy, write_buf (opcode, counter and the operand bytes
\* that follow them), the change counter of the cached state, and whether
\* discovery found the control-point and state handles.
ZeroBuf == [opcode |-> 0, counter |-> 0, operand |-> 0]

\* a GATT request handed to bt_gatt_write / bt_gatt_read: the bytes on the
\* air, and the callback in its params
GattWrite(wb, len) == [type |-> "write", func |-> "cp", cp |-> wb, len |-> len]
GattRead(func) == [type |-> "read", func |-> func, cp |-> ZeroBuf, len |-> 0]

\* What a client function does: the instance afterwards, its return value
\* ("OK" for 0, else the errno's name), the GATT requests it submitted and the
\* application callbacks it invoked, in order.
CliResult(c, ret, sent, cb) == [cli |-> c, ret |-> ret, sent |-> sent, cb |-> cb]
\* a control-point callback of the application: which one (by opcode), its err
AppCb(opcode, err) == [cb |-> "cp", opcode |-> opcode, err |-> err]
\* the state callback of the application
StateCb(err) == [cb |-> "state", opcode |-> 0, err |-> err]

\* what a read completes with: err, data # NULL, length == sizeof(state), and
\* the change counter in the data
ReadRsp(err, data, len_ok, counter) ==
    [err |-> err, data |-> data, len_ok |-> len_ok, counter |-> counter]

\* int16_t of two little-endian bytes
Int16(lo, hi) ==
    LET u == (lo % 256) + 256 * (hi % 256)
    IN  IF u >= 32768 THEN u - 65536 ELSE u

\* ---- VCS client
\* the busy guard of the VCS client's requests (mutant: the guard left out)
vcs_client_busy_never(c) == FALSE
vcs_client_busy(c) == c.busy

\* vcs_client_common_vcs_cp: busy is set before bt_gatt_write and stays set
\* when it fails (gatt_err)
vcs_client_common_vcs_cp(c, opcode, gatt_err) ==
    IF ~c.control_handle THEN CliResult(c, "EINVAL", <<>>, <<>>)
    ELSE IF vcs_client_busy(c) THEN CliResult(c, "EBUSY", <<>>, <<>>)
    ELSE LET wb == [c.write_buf EXCEPT !.opcode = opcode, !.counter = c.change_counter]
             c1 == [c EXCEPT !.busy = TRUE, !.write_buf = wb]
         IN  IF gatt_err THEN CliResult(c1, "ENOMEM", <<>>, <<>>)
             ELSE CliResult(c1, "OK", <<GattWrite(wb, VCS_CP_LEN)>>, <<>>)

bt_vcs_client_set_volume(c, volume, gatt_err) ==
    IF ~c.control_handle THEN CliResult(c, "EINVAL", <<>>, <<>>)
    ELSE IF vcs_client_busy(c) THEN CliResult(c, "EBUSY", <<>>, <<>>)
    ELSE LET wb == [opcode |-> VCS_OPCODE_SET_ABS_VOL, counter |-> c.change_counter,
                    operand |-> volume]
             c1 == [c EXCEPT !.busy = TRUE, !.write_buf = wb]
         IN  IF gatt_err THEN CliResult(c1, "ENOMEM", <<>>, <<>>)
             ELSE CliResult(c1, "OK", <<GattWrite(wb, VCS_CP_ABS_VOL_LEN)>>, <<>>)

\* bt_vcs_client_read_volume_state: busy is set once bt_gatt_read succeeded
bt_vcs_client_read_volume_state(c, gatt_err) ==
    IF ~c.state_handle THEN CliResult(c, "EINVAL", <<>>, <<>>)
    ELSE IF vcs_client_busy(c) THEN CliResult(c, "EBUSY", <<>>, <<>>)
    ELSE IF gatt_err THEN CliResult(c, "ENOMEM", <<>>, <<>>)
    ELSE CliResult([c EXCEPT !.busy = TRUE], "OK", <<GattRead("state")>>, <<>>)

vcs_client_read_volume_state_cb(c, rd) ==
    LET c1 == [c EXCEPT !.busy = FALSE]
    IN  IF rd.err # 0 THEN CliResult(c1, "OK", <<>>, <<StateCb(rd.err)>>)
        ELSE IF rd.data
        THEN IF rd.len_ok
             THEN CliResult([c1 EXCEPT !.change_counter = rd.counter], "OK", <<>>,
                            <<StateCb(0)>>)
             ELSE CliResult(c1, "OK", <<>>, <<StateCb(BT_ATT_ERR_INVALID_ATTRIBUTE_LEN)>>)
        ELSE CliResult(c1, "OK", <<>>, <<StateCb(0)>>)

\* vcs_cp_notify_app: the callback of the opcode, none for an unknown opcode
vcs_cp_notify_app(opcode, err) ==
    IF VALID_VCS_OPCODE(opcode) THEN <<AppCb(opcode, err)>> ELSE <<>>

\* the tail of internal_read_volume_state_cb: if (cb_err) { busy = false; ... }
vcs_internal_read_failed(c) ==
    CliResult([c EXCEPT !.busy = FALSE], "OK", <<>>,
              vcs_cp_notify_app(c.write_buf.opcode, BT_ATT_ERR_UNLIKELY))

\* internal_read_volume_state_cb: the re-read of the state after a write was
\* answered Invalid Change Counter; it re-issues the request in write_buf
internal_read_volume_state_cb(c, rd, gatt_err) ==
    IF rd.err # 0 THEN vcs_internal_read_failed(c)
    ELSE IF rd.data
    THEN IF rd.len_ok
         THEN LET c1 == [c EXCEPT !.change_counter = rd.counter, !.busy = FALSE]
                  w == IF c.write_buf.opcode = VCS_OPCODE_SET_ABS_VOL
                       THEN bt_vcs_client_set_volume(c1, c.write_buf.operand, gatt_err)
                       ELSE vcs_client_common_vcs_cp(c1, c.write_buf.opcode, gatt_err)
              IN  IF w.ret # "OK" THEN vcs_internal_read_failed(w.cli) ELSE w
         ELSE vcs_internal_read_failed(c)
    ELSE CliResult(c, "OK", <<>>, <<>>)

\* vcs_client_write_vcs_cp_cb; gatt_err: bt_gatt_read fails
vcs_client_write_vcs_cp_cb(c, err, gatt_err) ==
    IF err = VCS_ERR_INVALID_COUNTER /\ c.state_handle /\ ~gatt_err
    THEN CliResult(c, "OK", <<GattRead("internal")>>, <<>>)
    ELSE CliResult([c EXCEPT !.busy = FALSE], "OK", <<>>,
                   vcs_cp_notify_app(c.write_buf.opcode, err))

\* ---- VOCS client (an included service of the VCS client)
vocs_client_busy(c) == c.busy

\* bt_vcs_client_vocs_set_offset: write_buf is filled before bt_gatt_write,
\* busy is set once it succeeded
bt_vcs_client_vocs_set_offset(c, offset, gatt_err) ==
    IF ~c.control_handle THEN CliResult(c, "EINVAL", <<>>, <<>>)
    ELSE IF vocs_client_busy(c) THEN CliResult(c, "EBUSY", <<>>, <<>>)
    ELSE LET wb == [opcode |-> VOCS_OPCODE_SET_OFFSET, counter |-> c.change_counter,
                    operand |-> offset]
             c1 == [c EXCEPT !.write_buf = wb]
         IN  IF gatt_err THEN CliResult(c1, "ENOMEM", <<>>, <<>>)
             ELSE CliResult([c1 EXCEPT !.busy = TRUE], "OK",
                            <<GattWrite(wb, VOCS_CP_LEN)>>, <<>>)

bt_vcs_client_vocs_read_offset_state(c, gatt_err) ==
    IF ~c.state_handle THEN CliResult(c, "EINVAL", <<>>, <<>>)
    ELSE IF vocs_client_busy(c) THEN CliResult(c, "EBUSY", <<>>, <<>>)
    ELSE IF gatt_err THEN CliResult(c, "ENOMEM", <<>>, <<>>)
    ELSE CliResult([c EXCEPT !.busy = TRUE], "OK", <<GattRead("state")>>, <<>>)

vcs_client_vocs_read_offset_state_cb(c, rd) ==
    LET c1 == [c EXCEPT !.busy = FALSE]
    IN  IF rd.data
        THEN IF rd.len_ok
             THEN CliResult([c1 EXCEPT !.change_counter = rd.counter], "OK", <<>>,
                            <<StateCb(rd.err)>>)
             ELSE CliResult(c1, "OK", <<>>, <<StateCb(BT_ATT_ERR_INVALID_ATTRIBUTE_LEN)>>)
        ELSE CliResult(c1, "OK", <<>>, <<StateCb(rd.err)>>)

\* vocs_cp_notify_app: the set_offset callback
vocs_cp_notify_app(err) == <<AppCb(VOCS_OPCODE_SET_OFFSET, err)>>

vocs_internal_read_failed(c) ==
    CliResult([c EXCEPT !.busy = FALSE], "OK", <<>>,
              vocs_cp_notify_app(BT_ATT_ERR_UNLIKELY))

\* internal_read_volume_offset_state_cb.  cp points at the write_buf of the
\* VCS instance (vbuf), not at the one of the VOCS instance; cp->offset is its
\* third byte and the byte after its end (tail).
internal_read_volume_offset_state_cb(c, vbuf, tail, rd, gatt_err) ==
    IF rd.err # 0 THEN vocs_internal_read_failed(c)
    ELSE IF rd.data
    THEN IF rd.len_ok
         THEN LET c1 == [c EXCEPT !.change_counter = rd.counter, !.busy = FALSE]
                  w == bt_vcs_client_vocs_set_offset(c1, Int16(vbuf.operand, tail),
                                                     gatt_err)
              IN  IF w.ret # "OK" THEN vocs_internal_read_failed(w.cli) ELSE w
         ELSE vocs_internal_read_failed(c)
    ELSE CliResult(c, "OK", <<>>, <<>>)

vcs_client_write_vocs_cp_cb(c, err, gatt_err) ==
    IF err = VOCS_ERR_INVALID_COUNTER /\ c.state_handle /\ ~gatt_err
    THEN CliResult(c, "OK", <<GattRead("internal")>>, <<>>)
    ELSE CliResult([c EXCEPT !.busy = FALSE], "OK", <<>>, <<AppCb(VOCS_OPCODE_SET_OFFSET, err)>>)

\* ---- AICS client
aics_client_busy(c) == c.busy

\* aics_client_common_control: opcode and counter are stored in write_buf
\* before bt_gatt_write, busy is set once it succeeded
aics_client_common_control(c, opcode, gatt_err) ==
    IF ~c.control_handle THEN CliResult(c, "EINVAL", <<>>, <<>>)
    ELSE IF aics_client_busy(c) THEN CliResult(c, "EBUSY", <<>>, <<>>)
    ELSE LET wb == [c.write_buf EXCEPT !.opcode = opcode, !.counter = c.change_counter]
             c1 == [c EXCEPT !.write_buf = wb]
         IN  IF gatt_err THEN CliResult(c1, "ENOMEM", <<>>, <<>>)
             ELSE CliResult([c1 EXCEPT !.busy = TRUE], "OK",
                            <<GattWrite(wb, AICS_CP_LEN)>>, <<>>)

bt_aics_client_gain_set(c, gain, gatt_err) ==
    IF ~c.control_handle THEN CliResult(c, "EINVAL", <<>>, <<>>)
    ELSE IF aics_client_busy(c) THEN CliResult(c, "EBUSY", <<>>, <<>>)
    ELSE LET wb == [opcode |-> AICS_OPCODE_SET_GAIN, counter |-> c.change_counter,
                    operand |-> gain]
             c1 == [c EXCEPT !.write_buf = wb]
         IN  IF gatt_err THEN CliResult(c1, "ENOMEM", <<>>, <<>>)
             ELSE CliResult([c1 EXCEPT !.busy = TRUE], "OK",
                            <<GattWrite(wb, AICS_CP_SET_GAIN_LEN)>>, <<>>)

bt_aics_client_input_state_get(c, gatt_err) ==
    IF ~c.state_handle THEN CliResult(c, "EINVAL", <<>>, <<>>)
    ELSE IF aics_client_busy(c) THEN CliResult(c, "EBUSY", <<>>, <<>>)
    ELSE IF gatt_err THEN CliResult(c, "ENOMEM", <<>>, <<>>)
    ELSE CliResult([c EXCEPT !.busy = TRUE], "OK", <<GattRead("state")>>, <<>>)

\* aics_client_read_input_state_cb; the gain, mute and mode it hands to the
\* application are not part of the instance and are left out
aics_client_read_input_state_cb(c, rd) ==
    LET c1 == [c EXCEPT !.busy = FALSE]
    IN  IF rd.data
        THEN IF rd.len_ok
             THEN CliResult([c1 EXCEPT !.change_counter = rd.counter], "OK", <<>>,
                            <<StateCb(rd.err)>>)
             ELSE CliResult(c1, "OK", <<>>, <<StateCb(BT_ATT_ERR_INVALID_ATTRIBUTE_LEN)>>)
        ELSE CliResult(c1, "OK", <<>>, <<StateCb(rd.err)>>)

\* aics_cp_notify_app: the callback of the opcode in write_buf, none for an
\* unknown opcode
aics_cp_notify_app(c, err) ==
    IF VALID_AICS_OPCODE(c.write_buf.opcode)
    THEN <<AppCb(c.write_buf.opcode, err)>> ELSE <<>>

aics_internal_read_failed(c) ==
    LET c1 == [c EXCEPT !.busy = FALSE]
    IN  CliResult(c1, "OK", <<>>, aics_cp_notify_app(c1, BT_ATT_ERR_UNLIKELY))

internal_read_input_state_cb(c, rd, gatt_err) ==
    IF rd.err # 0 THEN aics_internal_read_failed(c)
    ELSE IF rd.data
    THEN IF rd.len_ok
         THEN LET c1 == [c EXCEPT !.change_counter = rd.counter, !.busy = FALSE]
                  w == IF c.write_buf.opcode = AICS_OPCODE_SET_GAIN
                       THEN bt_aics_client_gain_set(c1, c.write_buf.operand, gatt_err)
                       ELSE aics_client_common_control(c1, c.write_buf.opcode, gatt_err)
              IN  IF w.ret # "OK" THEN aics_internal_read_failed(w.cli) ELSE w
         ELSE aics_internal_read_failed(c)
    ELSE CliResult(c, "OK", <<>>, <<>>)

aics_client_write_aics_cp_cb(c, err, gatt_err) ==
    IF err = AICS_ERR_INVALID_COUNTER /\ c.state_handle /\ ~gatt_err
    THEN CliResult(c, "OK", <<GattRead("internal")>>, <<>>)
    ELSE LET c1 == [c EXCEPT !.busy = FALSE]
         IN  CliResult(c1, "OK", <<>>, aics_cp_notify_app(c1, err))

\* ---- the behaviour around the client
ClientKinds == {"vcs_client", "vocs_client", "aics_client"}

\* the control-point requests of the application: <<opcode, operand>>
CliRequests ==
    CASE svc = "vcs_client" ->
            { <<VCS_OPCODE_MUTE, 0>>, <<VCS_OPCODE_REL_VOL_UP, 0>>,
              <<VCS_OPCODE_SET_ABS_VOL, 200>> }
      [] svc = "vocs_client" ->
            { <<VOCS_OPCODE_SET_OFFSET, 100>>, <<VOCS_OPCODE_SET_OFFSET, 300>> }
      [] svc = "aics_client" ->
            { <<AICS_OPCODE_MUTE, 0>>, <<AICS_OPCODE_SET_GAIN, 10>> }
      [] OTHER -> {}

\* the control-point writes of another client of the same server
OtherRequests ==
    CASE svc = "vcs_client" -> { <<VCS_OPCODE_MUTE, 0>>, <<VCS_OPCODE_UNMUTE, 0>> }
      [] svc = "vocs_client" -> { <<VOCS_OPCODE_SET_OFFSET, 50>>,
                                  <<VOCS_OPCODE_SET_OFFSET, -50>> }
      [] svc = "aics_client" -> { <<AICS_OPCODE_MUTE, 0>>, <<AICS_OPCODE_UNMUTE, 0>> }
      [] OTHER -> {}

\* the byte after the VCS instance's write_buf
VcsBufTail == {0, 255}

\* the number of bytes a well-formed request of the opcode has
CpLen(opcode) ==
    CASE svc = "vcs_client" ->
            IF opcode = VCS_OPCODE_SET_ABS_VOL THEN VCS_CP_ABS_VOL_LEN ELSE VCS_CP_LEN
      [] svc = "vocs_client" -> VOCS_CP_LEN
      [] svc = "aics_client" ->
            IF opcode = AICS_OPCODE_SET_GAIN THEN AICS_CP_SET_GAIN_LEN ELSE AICS_CP_LEN

\* the peer's server instance, its counter and its state
SrvInst ==
    CASE svc = "vcs_client" -> vcs_inst
      [] svc = "vocs_client" -> vocs_inst
      [] svc = "aics_client" -> aics_inst
SrvStateOf(inst) ==
    CASE svc = "vcs_client" -> VcsState(inst)
      [] svc = "vocs_client" -> VocsState(inst)
      [] svc = "aics_client" -> AicsState(inst)

\* the peer's control-point handler runs on the bytes of a write
SrvWrite(inst, wb, len) ==
    CASE svc = "vcs_client" ->
            write_vcs_control(inst, [opcode |-> wb.opcode, counter |-> wb.counter,
                                     volume |-> wb.operand], len, 0)
      [] svc = "vocs_client" ->
            write_vocs_control(inst, [opcode |-> wb.opcode, counter |-> wb.counter,
                                      offset |-> wb.operand], len, 0)
      [] svc = "aics_client" ->
            write_aics_control(inst, [opcode |-> wb.opcode, counter |-> wb.counter,
                                      gain_setting |-> wb.operand], len, 0)

SetSrv(inst) ==
    /\ vcs_inst' = IF svc = "vcs_client" THEN inst ELSE vcs_inst
    /\ vocs_inst' = IF svc = "vocs_client" THEN inst ELSE vocs_inst
    /\ aics_inst' = IF svc = "aics_client" THEN inst ELSE aics_inst
    /\ UNCHANGED <<svc, trace, ext_vars, out, last, prev, notified, nOps>>

\* the application's call, by service
ApiWrite(c, rq, gatt_err) ==
    CASE svc = "vcs_client" ->
            IF rq[1] = VCS_OPCODE_SET_ABS_VOL
            THEN bt_vcs_client_set_volume(c, rq[2], gatt_err)
            ELSE vcs_client_common_vcs_cp(c, rq[1], gatt_err)
      [] svc = "vocs_client" -> bt_vcs_client_vocs_set_offset(c, rq[2], gatt_err)
      [] svc = "aics_client" ->
            IF rq[1] = AICS_OPCODE_SET_GAIN
            THEN bt_aics_client_gain_set(c, rq[2], gatt_err)
            ELSE aics_client_common_control(c, rq[1], gatt_err)
ApiRead(c, gatt_err) ==
    CASE svc = "vcs_client" -> bt_vcs_client_read_volume_state(c, gatt_err)
      [] svc = "vocs_client" -> bt_vcs_client_vocs_read_offset_state(c, gatt_err)
      [] svc = "aics_client" -> bt_aics_client_input_state_get(c, gatt_err)

\* write_params.func and read_params.func, by service
WriteCb(c, err, gatt_err) ==
    CASE svc = "vcs_client" -> vcs_client_write_vcs_cp_cb(c, err, gatt_err)
      [] svc = "vocs_client" -> vcs_client_write_vocs_cp_cb(c, err, gatt_err)
      [] svc = "aics_client" -> aics_client_write_aics_cp_cb(c, err, gatt_err)
ReadCb(c, func, rd, gatt_err, tail) ==
    CASE svc = "vcs_client" ->
            IF func = "internal" THEN internal_read_volume_state_cb(c, rd, gatt_err)
            ELSE vcs_client_read_volume_state_cb(c, rd)
      [] svc = "vocs_client" ->
            IF func = "internal"
            THEN internal_read_volume_offset_state_cb(c, vcs_buf, tail, rd, gatt_err)
            ELSE vcs_client_vocs_read_offset_state_cb(c, rd)
      [] svc = "aics_client" ->
            IF func = "internal" THEN internal_read_input_state_cb(c, rd, gatt_err)
            ELSE aics_client_read_input_state_cb(c, rd)

\* How a read of the state characteristic can complete: with the state, with
\* an error, with a value of another length, with no data.
ReadOutcomes(counter) ==
    { ReadRsp(0, TRUE, TRUE, counter), ReadRsp(BT_ATT_ERR_UNLIKELY, FALSE, FALSE, 0),
      ReadRsp(0, TRUE, FALSE, counter), ReadRsp(0, FALSE, FALSE, 0) }

\* ---- history of the control-point transaction of the last accepted request
NoTxn ==
    [active |-> FALSE, opcode |-> 0, operand |-> 0, writes |-> 0, reads |-> 0,
     cbs |-> 0, cb_op |-> 0, cb_err |-> 0, busy_after |-> FALSE, werr |-> -1,
     clean |-> TRUE, expect_ok |-> FALSE, expect |-> <<>>, applied |-> FALSE]

\* a request was accepted: its first write is on its way.  expect is the
\* server's state once the operation is applied to its present state.
NewTxn(rq) ==
    LET e == SrvWrite(SrvInst, [opcode |-> rq[1], counter |-> SrvInst.change_counter,
                                operand |-> rq[2]], CpLen(rq[1]))
    IN  [NoTxn EXCEPT !.active = TRUE, !.opcode = rq[1], !.operand = rq[2],
                      !.writes = 1, !.expect_ok = (e.err = 0),
                      !.expect = SrvStateOf(e.inst)]

\* a callback of the client ran with result r; the server's state is srv;
\* werr is the answer to the transaction's latest write, -1 while it is on its way
TxnStep(t, r, srv, werr, fault) ==
    LET w == Len(SelectSeq(r.sent, LAMBDA g : g.type = "write"))
        rd == Len(SelectSeq(r.sent, LAMBDA g : g.func = "internal"))
        cbs == SelectSeq(r.cb, LAMBDA e : e.cb = "cp")
        t1 == [t EXCEPT !.writes = @ + w, !.reads = @ + rd, !.werr = IF w > 0 THEN -1 ELSE werr,
                        !.clean = @ /\ ~fault]
    IN  IF cbs = <<>> THEN t1
        ELSE [t1 EXCEPT !.active = FALSE, !.cbs = @ + Len(cbs),
                        !.cb_op = cbs[1].opcode, !.cb_err = cbs[1].err,
                        !.busy_after = r.cli.busy, !.applied = (srv = t.expect)]

NoReq == [api |-> "none", pre_busy |-> FALSE, pre_att |-> 0, ret |-> "OK", sent |-> 0,
          buf_same |-> TRUE]
ReqRecord(api, r) ==
    [api |-> api, pre_busy |-> cli.busy, pre_att |-> Len(att), ret |-> r.ret,
     sent |-> Len(r.sent), buf_same |-> (r.cli.write_buf = cli.write_buf)]

\* ---- actions
\* the application calls a control-point request; gatt_err: bt_gatt_write fails
ClientRequest(rq, gatt_err) ==
    /\ svc \in ClientKinds /\ nReq < MaxReq
    /\ LET r == ApiWrite(cli, rq, gatt_err)
       IN  /\ cli' = r.cli
           /\ att' = att \o r.sent
           /\ rlast' = ReqRecord("write", r)
           /\ txn' = IF r.ret = "OK" THEN NewTxn(rq) ELSE txn
    /\ nReq' = nReq + 1
    /\ UNCHANGED <<srv_vars, csis_vars, vcs_buf, nCompete>>

\* the application calls the read of the state; gatt_err: bt_gatt_read fails
ClientRead(gatt_err) ==
    /\ svc \in ClientKinds /\ nReq < MaxReq
    /\ LET r == ApiRead(cli, gatt_err)
       IN  /\ cli' = r.cli
           /\ att' = att \o r.sent
           /\ rlast' = ReqRecord("read", r)
    /\ nReq' = nReq + 1
    /\ UNCHANGED <<srv_vars, csis_vars, vcs_buf, txn, nCompete>>

\* The oldest write completes: the server handled it and answered (reached),
\* or it failed on the way; then the write callback runs.
GattWriteDone(reached, gatt_err) ==
    /\ svc \in ClientKinds
    /\ att # <<>> /\ Head(att).type = "write"
    /\ LET g == Head(att)
           s == IF reached THEN SrvWrite(SrvInst, g.cp, g.len)
                ELSE Result(SrvInst, BT_ATT_ERR_UNLIKELY, <<>>)
           r == WriteCb(cli, s.err, gatt_err)
       IN  /\ SetSrv(s.inst)
           /\ cli' = r.cli
           /\ att' = Tail(att) \o r.sent
           /\ txn' = TxnStep(txn, r, SrvStateOf(s.inst), s.err, ~reached \/ gatt_err)
    /\ UNCHANGED <<csis_vars, vcs_buf, rlast, nReq, nCompete>>

\* The oldest read completes; then the read callback in its params runs.
GattReadDone(rd, gatt_err, tail) ==
    /\ svc \in ClientKinds
    /\ att # <<>> /\ Head(att).type = "read"
    /\ LET r == ReadCb(cli, Head(att).func, rd, gatt_err, tail)
       IN  /\ cli' = r.cli
           /\ att' = Tail(att) \o r.sent
           /\ txn' = TxnStep(txn, r, SrvStateOf(SrvInst), txn.werr,
                             rd # ReadRsp(0, TRUE, TRUE, SrvInst.change_counter)
                             \/ gatt_err)
    /\ UNCHANGED <<srv_vars, csis_vars, vcs_buf, rlast, nReq, nCompete>>

\* another client writes the control point with the current counter
OtherWrite(rq) ==
    /\ svc \in ClientKinds /\ nCompete < MaxCompete
    /\ LET s == SrvWrite(SrvInst, [opcode |-> rq[1], counter |-> SrvInst.change_counter,
                                   operand |-> rq[2]], CpLen(rq[1]))
       IN  SetSrv(s.inst)
    /\ txn' = [txn EXCEPT !.clean = @ /\ ~txn.active]
    /\ nCompete' = nCompete + 1
    /\ UNCHANGED <<csis_vars, cli, vcs_buf, att, rlast, nReq>>

\* the client's instance once discovery found the handles: the cached counter
\* is what the last read or notification carried, or 0 as discovery leaves it
CliInstances(counter) ==
    { [busy |-> FALSE, write_buf |-> ZeroBuf, change_counter |-> c,
       control_handle |-> TRUE, state_handle |-> TRUE] : c \in {counter, 0} }
CliDefault ==
    [busy |-> FALSE, write_buf |-> ZeroBuf, change_counter |-> 0,
     control_handle |-> FALSE, state_handle |-> FALSE]

\* the clients while a behaviour drives another component
CliOff ==
    /\ cli = CliDefault /\ vcs_buf = ZeroBuf /\ att = <<>> /\ txn = NoTxn
    /\ rlast = NoReq /\ nReq = 0 /\ nCompete = 0

\* The peer's server in a state early in a session or next to the counter's
\* wrap-around; the VCS instance's write_buf zeroed or left by a Set Absolute
\* Volume.
ClientInit ==
    /\ svc \in ClientKinds /\ trace = FALSE /\ ExtOff
    /\ \E c \in {0, 255} :
          /\ vcs_inst = [VcsDefault EXCEPT !.change_counter =
                                               IF svc = "vcs_client" THEN c ELSE 0]
          /\ vocs_inst = [VocsDefault EXCEPT !.change_counter =
                                                 IF svc = "vocs_client" THEN c ELSE 0]
          /\ aics_inst = [AicsDefault EXCEPT !.change_counter =
                                                 IF svc = "aics_client" THEN c ELSE 0]
          /\ cli \in CliInstances(c)
    /\ out = <<>> /\ last = NoWrite /\ prev = NoWrite /\ notified = <<>> /\ nOps = 0
    /\ CsisOff
    /\ vcs_buf \in (IF svc = "vocs_client"
                    THEN {ZeroBuf, [opcode |-> VCS_OPCODE_SET_ABS_VOL, counter |-> 0,
                                    operand |-> 200]}
                    ELSE {ZeroBuf})
    /\ att = <<>> /\ txn = NoTxn /\ rlast = NoReq /\ nReq = 0 /\ nCompete = 0

GattDone ==
    \/ \E reached \in BOOLEAN : \E gatt_err \in BOOLEAN : GattWriteDone(reached, gatt_err)
    \/ \E rd \in ReadOutcomes(SrvInst.change_counter) : \E gatt_err \in BOOLEAN :
          \E tail \in VcsBufTail : GattReadDone(rd, gatt_err, tail)

ClientNext ==
    \/ \E rq \in CliRequests : \E gatt_err \in BOOLEAN : ClientRequest(rq, gatt_err)
    \/ \E gatt_err \in BOOLEAN : ClientRead(gatt_err)
    \/ GattDone
    \/ \E rq \in OtherRequests : OtherWrite(rq)

\* after bt_csis_init, with any of the peers connected
CsisInit ==
    /\ svc = "csis" /\ trace = FALSE /\ ExtOff
    /\ SrvOff
    /\ csis_inst = CsisDefault
    /\ conns \in SUBSET Peers
    /\ bonds = {} /\ holder = {} /\ clast = NoEvent /\ cOps = 0
    /\ CliOff

CsisNext ==
    \/ \E p \in Peers : \E rq \in CsisRequests : CsisWrite(p, rq)
    \/ \E lock \in BOOLEAN : \E force \in BOOLEAN : CsisLocalLock(lock, force)
    \/ CsisTimer
    \/ \E p \in Peers : CsisConnect(p)
    \/ \E p \in Peers : CsisDisconnect(p)
    \/ \E p \in Peers : \E bonded \in BOOLEAN : CsisPairingComplete(p, bonded)
    \/ \E p \in Peers : \E err \in {0, 1} : CsisSecurityChanged(p, err)
    \/ \E p \in Peers : CsisUnpair(p)

\* ===================================================================
\* Specifications
\* ===================================================================
Init == SrvInit /\ CsisOff /\ CliOff

Next ==
    \/ \E p \in Peers : \E rq \in VcsRequests(vcs_inst.change_counter) : VcsWrite(p, rq)
    \/ \E op \in 0 .. 6 : \E v \in (IF op = VCS_OPCODE_SET_ABS_VOL THEN VcsVolumes ELSE {0}) :
          bt_vcs_local(op, v)
    \/ \E st \in VolumeSteps : bt_vcs_volume_step_set(st)
    \/ \E p \in Peers : \E rq \in VocsRequests(vocs_inst.change_counter) : VocsWrite(p, rq)
    \/ \E o \in VocsOffsets : bt_vocs_state_set(o)
    \/ \E p \in Peers : \E rq \in AicsRequests(aics_inst.change_counter) : AicsWrite(p, rq)
    \/ \E op \in 1 .. 5 : \E g \in (IF op = AICS_OPCODE_SET_GAIN THEN AicsGains ELSE {0}) :
          bt_aics_local(op, g)

Spec == Init /\ [][Next]_vars

\* the set lock; timer expiries are not bounded
CsisSpec == CsisInit /\ [][CsisNext]_vars

\* the kernel runs a pending delayed work once its delay has passed
CsisFairSpec == CsisSpec /\ WF_vars(CsisTimer)

\* the i-th smallest member of a set of peers
NthPeer(B, i) == CHOOSE p \in B : Cardinality({ q \in B : q < p }) = i - 1

\* csis_inst once the peers of B have bonded, in ascending order, with the
\* lock Released; pnd: the peers with a notification pending
BondedInst(B, pnd) ==
    [CsisDefault EXCEPT
        !.pend_notify = [i \in 1 .. MaxPaired |->
                           IF i <= Cardinality(B)
                           THEN [addr |-> NthPeer(B, i), pending |-> NthPeer(B, i) \in pnd,
                                 active |-> TRUE, age |-> i - 1]
                           ELSE EmptyEntry],
        !.age_counter = Cardinality(B)]

\* the set lock with peers that bonded earlier, connected or not
CsisBondInit ==
    /\ svc = "csis" /\ trace = FALSE /\ ExtOff
    /\ SrvOff
    /\ conns \in SUBSET Peers
    /\ bonds \in { B \in SUBSET Peers : Cardinality(B) <= MaxPaired }
    /\ \E pnd \in SUBSET bonds : csis_inst = BondedInst(bonds, pnd)
    /\ holder = {} /\ clast = NoEvent /\ cOps = 0
    /\ CliOff

CsisBondSpec == CsisBondInit /\ [][CsisNext]_vars

\* a client, its peer's server and another client of that server
ClientSpec == ClientInit /\ [][ClientNext]_vars

\* every GATT write and read submitted eventually completes
ClientFairSpec == ClientSpec /\ WF_vars(GattDone)

\* ----------------------------------------------------------------------
\* CallSpec: one server handler applied to the states an instance can be in.
\* last keeps the request and the instance it met (trace), the writes come
\* from one peer, and the requests cover every opcode at every length 0..4.
\* VCS: flags is latched by the first volume opcode, so an unlatched instance
\* still has the volume of the static initialiser.
CallVolumes == {0, 1, 2, 100, 253, 254, 255}
CallSteps == {1, 2, 255}
CallVcsStates ==
    { [volume |-> v, mute |-> m, flags |-> f, change_counter |-> c,
       volume_step |-> st] :
      v \in CallVolumes, m \in {0, 1}, f \in {0, 1}, c \in {0, 255},
      st \in CallSteps }
    \ { s \in [volume : CallVolumes, mute : {0, 1}, flags : {0}, change_counter : {0, 255},
               volume_step : CallSteps] : s.volume # VcsDefault.volume }
CallVcsRequests(c) ==
    { Rq(op, c, v, len, 0) : op \in (0 .. 6) \ {VCS_OPCODE_SET_ABS_VOL},
                             v \in {0}, len \in 0 .. 4 }
    \cup { Rq(VCS_OPCODE_SET_ABS_VOL, c, v, len, 0) : v \in {0, 100, 255}, len \in 0 .. 4 }
    \cup { Rq(op, Uint8(c + 1), 0, IF op = VCS_OPCODE_SET_ABS_VOL THEN 3 ELSE 2, 0) :
           op \in {VCS_OPCODE_REL_VOL_UP, VCS_OPCODE_SET_ABS_VOL, VCS_OPCODE_MUTE} }
    \cup { Rq(7, c, 0, 2, 0), Rq(VCS_OPCODE_MUTE, c, 0, 2, 1) }

\* VOCS: an instance bt_vocs_init has initialised, or the zeroed instance
\* of the pool before bt_vocs_init.
VocsUninit == [offset |-> 0, change_counter |-> 0, initialized |-> FALSE]
CallVocsStates ==
    { [offset |-> o, change_counter |-> c, initialized |-> TRUE] :
      o \in {-255, -1, 0, 255}, c \in {0, 255} } \cup {VocsUninit}
CallOffsets == {-32768, -256, -255, -1, 0, 255, 256, 32767}
CallVocsRequests(c) ==
    { Rq(VOCS_OPCODE_SET_OFFSET, c, o, 4, 0) : o \in CallOffsets }
    \cup { Rq(VOCS_OPCODE_SET_OFFSET, c, o, len, 0) : o \in {255, 256},
                                                     len \in {0, 1, 2, 3, 5} }
    \cup { Rq(VOCS_OPCODE_SET_OFFSET, Uint8(c + 1), 255, 4, 0),
           Rq(VOCS_OPCODE_SET_OFFSET, Uint8(c + 1), 256, 4, 0),
           Rq(0, c, 255, 4, 0), Rq(2, c, 255, 4, 0),
           Rq(VOCS_OPCODE_SET_OFFSET, c, 255, 4, 1) }
VocsInits == { [offset |-> o] : o \in {-256, -255, 0, 255, 256} }

\* AICS: an instance bt_aics_init has initialised with the gain inside its
\* gain settings, or the zeroed instance of the pool before bt_aics_init.
AicsUninit == [gain |-> 0, mute |-> 0, mode |-> 0, change_counter |-> 0,
               units |-> 0, minimum |-> 0, maximum |-> 0, type |-> 0,
               initialized |-> FALSE]
CallAicsStates ==
    { [gain |-> g, mute |-> m, mode |-> md, change_counter |-> c,
       units |-> 1, minimum |-> -10, maximum |-> 10, type |-> 0,
       initialized |-> TRUE] :
      g \in {-10, 0, 10}, m \in 0 .. 2, md \in 0 .. 3, c \in {0, 255} }
    \cup {AicsUninit}
CallGains == {-128, -11, -10, 0, 10, 11, 127}
CallAicsRequests(c) ==
    { Rq(op, c, 10, len, 0) : op \in 2 .. 5, len \in 0 .. 4 }
    \cup { Rq(AICS_OPCODE_SET_GAIN, c, g, 3, 0) : g \in CallGains }
    \cup { Rq(AICS_OPCODE_SET_GAIN, c, g, len, 0) : g \in {10, 11}, len \in {0, 1, 2, 4} }
    \cup { Rq(op, Uint8(c + 1), 10, IF op = AICS_OPCODE_SET_GAIN THEN 3 ELSE 2, 0) :
           op \in {AICS_OPCODE_SET_GAIN, AICS_OPCODE_MUTE, AICS_OPCODE_SET_AUTO} }
    \cup { Rq(0, c, 0, 2, 0), Rq(6, c, 0, 2, 0), Rq(AICS_OPCODE_MUTE, c, 0, 2, 1) }
AicsInitParam(gain, mute, mode, min_gain, max_gain, input_type) ==
    [gain |-> gain, mute |-> mute, mode |-> mode, units |-> 1,
     min_gain |-> min_gain, max_gain |-> max_gain, input_type |-> input_type]
AicsInits ==
    { AicsInitParam(0, AICS_STATE_UNMUTED, AICS_MODE_MANUAL, -10, 10, 0),
      AicsInitParam(-10, AICS_STATE_MUTE_DISABLED, AICS_MODE_AUTO_ONLY, -10, 10, 6),
      AicsInitParam(20, AICS_STATE_MUTED, AICS_MODE_AUTO, -10, 10, 0),
      AicsInitParam(-20, AICS_STATE_UNMUTED, AICS_MODE_MANUAL_ONLY, -10, 10, 0),
      AicsInitParam(0, AICS_STATE_UNMUTED, AICS_MODE_MANUAL, 10, -10, 0),
      AicsInitParam(0, 3, AICS_MODE_MANUAL, -10, 10, 0),
      AicsInitParam(0, AICS_STATE_UNMUTED, 4, -10, 10, 0),
      AicsInitParam(0, AICS_STATE_UNMUTED, AICS_MODE_MANUAL, -10, 10, 7),
      AicsInitParam(0, AICS_STATE_UNMUTED, AICS_MODE_MANUAL, -10, 10, -1) }

CallInit ==
    /\ svc \in {"vcs", "vocs", "aics"} /\ trace = TRUE /\ ExtOff
    /\ vcs_inst \in (IF svc = "vcs" THEN CallVcsStates ELSE {VcsDefault})
    /\ vocs_inst \in (IF svc = "vocs" THEN CallVocsStates ELSE {VocsDefault})
    /\ aics_inst \in (IF svc = "aics" THEN CallAicsStates ELSE {AicsDefault})
    /\ out = <<>>
    /\ last = NoWrite /\ prev = NoWrite
    /\ notified = <<>>
    /\ nOps = 0
    /\ CsisOff /\ CliOff

\* A peer reaches the control point of a registered service only.
CallNext ==
    \/ /\ nOps < MaxCalls
       /\ \E rq \in CallVcsRequests(vcs_inst.change_counter) : VcsWrite(1, rq)
    \/ /\ nOps < MaxCalls
       /\ \E op \in 0 .. 6 :
             \E v \in (IF op = VCS_OPCODE_SET_ABS_VOL THEN {0, 100, 255} ELSE {0}) :
                bt_vcs_local(op, v)
    \/ /\ nOps < MaxCalls
       /\ \E st \in {0} \cup CallSteps : bt_vcs_volume_step_set(st)
    \/ /\ nOps < MaxCalls /\ vocs_inst.initialized
       /\ \E rq \in CallVocsRequests(vocs_inst.change_counter) : VocsWrite(1, rq)
    \/ /\ nOps < MaxCalls
       /\ \E o \in CallOffsets : bt_vocs_state_set(o)
    \/ /\ nOps < MaxCalls
       /\ \E init \in VocsInits : \E reg_ok \in BOOLEAN : VocsInit(init, reg_ok)
    \/ /\ nOps < MaxCalls /\ aics_inst.initialized
       /\ \E rq \in CallAicsRequests(aics_inst.change_counter) : AicsWrite(1, rq)
    \/ /\ nOps < MaxCalls
       /\ \E op \in 1 .. 5 :
             \E g \in (IF op = AICS_OPCODE_SET_GAIN THEN CallGains ELSE {0}) :
                bt_aics_local(op, g)
    \/ /\ nOps < MaxCalls
       /\ \E init \in AicsInits : \E reg_ok \in BOOLEAN : AicsInit(init, reg_ok)

CallSpec == CallInit /\ [][CallNext]_vars

\* ======================================================================
\* CSIS: the prand of a PSRI
\* ======================================================================
\* BIT(22), and the mask of the 22 bits below it
BIT22 == 4194304
PRAND_MASK == 4194303

\* x & 0x3FFFFF and x | BIT(22) on unsigned 32-bit values
AndMask22(x) == x % BIT22
OrBit22(x) == IF (x \div BIT22) % 2 = 1 THEN x ELSE x + BIT22

\* the validation of generate_prand: *dest != 0 && *dest != 0x3FFFFF
prand_valid(dest) == dest # 0 /\ dest # PRAND_MASK

\* *dest |= BIT(22) with the masking left out
prand_set_bits_unmasked(dest) == OrBit22(dest)

\* *dest &= 0x3FFFFF; *dest |= BIT(22);
prand_set_bits(dest) == OrBit22(AndMask22(dest))

\* what bt_rand(dest, 3) may put into the three low bytes of *dest
PrandRaws ==
    { 0, 1, PRAND_MASK - 1, PRAND_MASK, BIT22, BIT22 + 1, 2 * BIT22 - 1,
      2 * BIT22, 3 * BIT22 - 1, 3 * BIT22, 4 * BIT22 - 1 }

\* csis_update_psri calls generate_prand
GeneratePrand ==
    /\ svc = "psri" /\ psri_gen.pc # "loop"
    /\ Len(drawn) < MaxDraws
    /\ psri_gen' = [pc |-> "loop", dest |-> 0, res |-> 0]
    /\ UNCHANGED <<svc, trace, drawn, pool_vars, ascs_vars, aux_vars, vcs_inst, vocs_inst, aics_inst, out, last, prev,
                   notified, nOps, csis_vars, cli_vars>>

\* one round of the do-while loop: bt_rand returns res and, when res is 0,
\* the value raw
PrandRound(raw, res) ==
    /\ svc = "psri" /\ psri_gen.pc = "loop"
    /\ Len(drawn) < MaxDraws
    /\ drawn' = Append(drawn, IF res = 0 THEN raw ELSE -1)
    /\ psri_gen' = IF res # 0 THEN [pc |-> "done", dest |-> 0, res |-> res]
                   ELSE IF prand_valid(raw)
                   THEN [pc |-> "done", dest |-> prand_set_bits(raw), res |-> 0]
                   ELSE [pc |-> "loop", dest |-> raw, res |-> 0]
    /\ UNCHANGED <<svc, trace, pool_vars, ascs_vars, aux_vars, vcs_inst, vocs_inst, aics_inst, out, last, prev,
                   notified, nOps, csis_vars, cli_vars>>

PsriInit ==
    /\ svc = "psri" /\ trace = FALSE /\ PsriOff /\ PoolOff /\ AscsOff /\ AuxOff
    /\ SrvOff /\ CsisOff /\ CliOff

PsriNext ==
    \/ GeneratePrand
    \/ \E raw \in PrandRaws : \E res \in {0, -1} : PrandRound(raw, res)

PsriSpec == PsriInit /\ [][PsriNext]_vars

\* ======================================================================
\* The instance pools of VOCS and AICS, and bt_vcs_init
\* ======================================================================
\* a pool of n instances as the static initialiser leaves it
VocsPool(n) == [instance_cnt |-> 0, inst |-> [k \in 1 .. n |-> VocsUninit]]
AicsPool(n) == [instance_cnt |-> 0, inst |-> [k \in 1 .. n |-> AicsUninit]]

\* instance_cnt without the increment
instance_cnt_kept(cnt) == cnt

\* instance_cnt++
instance_cnt_inc(cnt) == cnt + 1

\* bt_vocs_free_instance_get: the pool afterwards and the instance returned
\* (its position in vocs_insts counted from 1; 0: NULL)
bt_vocs_free_instance_get(pool) ==
    IF pool.instance_cnt >= Len(pool.inst) THEN [pool |-> pool, inst |-> 0]
    ELSE [pool |-> [pool EXCEPT !.instance_cnt = instance_cnt_inc(@)],
          inst |-> pool.instance_cnt + 1]

bt_aics_free_instance_get(pool) ==
    IF pool.instance_cnt >= Len(pool.inst) THEN [pool |-> pool, inst |-> 0]
    ELSE [pool |-> [pool EXCEPT !.instance_cnt = instance_cnt_inc(@)],
          inst |-> pool.instance_cnt + 1]

\* user_data of an include placeholder: NULL, or the declaration of an instance
NullDecl == [kind |-> "null", idx |-> 0]
bt_vocs_svc_decl_get(idx) == [kind |-> "vocs", idx |-> idx]
bt_aics_svc_decl_get(idx) == [kind |-> "aics", idx |-> idx]

\* the init structures bt_vcs_init is called with: valid ones, but for the
\* VOCS instance vbad and the AICS instance abad (0: none)
VcsInitParam(vbad, abad, nv, na) ==
    [vocs_init |-> [j \in 1 .. nv |-> [offset |-> IF j = vbad THEN 256 ELSE 0]],
     aics_init |-> [j \in 1 .. na |->
                      AicsInitParam(0, AICS_STATE_UNMUTED,
                                    IF j = abad THEN 4 ELSE AICS_MODE_MANUAL,
                                    -10, 10, 0)]]

\* The state bt_vcs_init works on: the pools, the table, the registrations
\* made so far, and its return value ("run" until it returns).  The call of
\* bt_gatt_service_register numbered reg_fail fails (0: none does).
\*
\* The first loop of bt_vcs_init, at include placeholder i with j - 1
\* instances placed.
RECURSIVE vcs_init_vocs(_, _, _, _, _)
vcs_init_vocs(st, i, j, init, reg_fail) ==
    IF i > Len(st.tab.user_data) THEN st
    ELSE LET g == bt_vocs_free_instance_get(st.vocs_pool)
             st1 == [st EXCEPT !.vocs_pool = g.pool, !.tab.vocs_insts[j] = g.inst,
                               !.given.vocs = IF g.inst = 0 THEN @ ELSE Append(@, g.inst)]
         IN  IF g.inst = 0 THEN [st1 EXCEPT !.ret = "-ENOMEM"]
             ELSE LET r == bt_vocs_init(g.pool.inst[g.inst], init.vocs_init[j],
                                        st.regs + 1 # reg_fail)
                      st2 == [st1 EXCEPT !.vocs_pool.inst[g.inst] = r.inst,
                                         !.regs = IF r.ret \in {"0", "register"}
                                                  THEN @ + 1 ELSE @]
                  IN  IF r.ret # "0" THEN [st2 EXCEPT !.ret = r.ret]
                      ELSE LET st3 == [st2 EXCEPT !.tab.user_data[i] =
                                                      bt_vocs_svc_decl_get(g.inst)]
                           IN  IF j = Len(st.tab.vocs_insts) THEN st3
                               ELSE vcs_init_vocs(st3, i + 1, j + 1, init, reg_fail)

\* the second loop of bt_vcs_init
RECURSIVE vcs_init_aics(_, _, _, _, _)
vcs_init_aics(st, i, j, init, reg_fail) ==
    IF i > Len(st.tab.user_data) THEN st
    ELSE LET g == bt_aics_free_instance_get(st.aics_pool)
             st1 == [st EXCEPT !.aics_pool = g.pool, !.tab.aics_insts[j] = g.inst,
                               !.given.aics = IF g.inst = 0 THEN @ ELSE Append(@, g.inst)]
         IN  IF g.inst = 0 THEN [st1 EXCEPT !.ret = "-ENOMEM"]
             ELSE LET r == bt_aics_init(g.pool.inst[g.inst], init.aics_init[j],
                                        st.regs + 1 # reg_fail)
                      st2 == [st1 EXCEPT !.aics_pool.inst[g.inst] = r.inst,
                                         !.regs = IF r.ret \in {"0", "register"}
                                                  THEN @ + 1 ELSE @]
                  IN  IF r.ret # "0" THEN [st2 EXCEPT !.ret = r.ret]
                      ELSE LET st3 == [st2 EXCEPT !.tab.user_data[i] =
                                                      bt_aics_svc_decl_get(g.inst)]
                           IN  IF j = Len(st.tab.aics_insts) THEN st3
                               ELSE vcs_init_aics(st3, i + 1, j + 1, init, reg_fail)

\* bt_vcs_init(init): both loops start at the first attribute of vcs_attrs
bt_vcs_init(vp, ap, tab, gv, init, reg_fail) ==
    LET st == [vocs_pool |-> vp, aics_pool |-> ap, tab |-> tab, given |-> gv,
               regs |-> 0, ret |-> "run"]
        a == vcs_init_vocs(st, 1, 1, init, reg_fail)
        b == vcs_init_aics(a, 1, 1, init, reg_fail)
    IN  IF a.ret # "run" THEN a
        ELSE IF b.ret # "run" THEN b
        ELSE [b EXCEPT !.ret = IF b.regs + 1 # reg_fail THEN "0" ELSE "register"]

\* ------------------------------------------------------------ pool actions
\* the application calls bt_vcs_init
BtVcsInit(vbad, abad, reg_fail) ==
    /\ svc = "pool" /\ pOps < MaxPoolOps
    /\ LET r == bt_vcs_init(vocs_pool, aics_pool, vcs_tab, given,
                            VcsInitParam(vbad, abad, Len(vcs_tab.vocs_insts),
                                         Len(vcs_tab.aics_insts)), reg_fail)
       IN  /\ vocs_pool' = r.vocs_pool /\ aics_pool' = r.aics_pool
           /\ vcs_tab' = r.tab /\ given' = r.given
           /\ plast' = [op |-> "bt_vcs_init", ret |-> r.ret, inst |-> 0]
    /\ pOps' = pOps + 1
    /\ UNCHANGED <<svc, trace, psri_gen, drawn, ascs_vars, aux_vars, vcs_inst, vocs_inst, aics_inst, out,
                   last, prev, notified, nOps, csis_vars, cli_vars>>

\* the application takes an instance from a pool itself
VocsFreeInstanceGet ==
    /\ svc = "pool" /\ pOps < MaxPoolOps
    /\ LET g == bt_vocs_free_instance_get(vocs_pool)
       IN  /\ vocs_pool' = g.pool
           /\ given' = [given EXCEPT !.vocs = IF g.inst = 0 THEN @ ELSE Append(@, g.inst)]
           /\ plast' = [op |-> "bt_vocs_free_instance_get",
                        ret |-> IF g.inst = 0 THEN "NULL" ELSE "inst", inst |-> g.inst]
    /\ pOps' = pOps + 1
    /\ UNCHANGED <<svc, trace, psri_gen, drawn, ascs_vars, aux_vars, aics_pool, vcs_tab, vcs_inst, vocs_inst,
                   aics_inst, out, last, prev, notified, nOps, csis_vars, cli_vars>>

AicsFreeInstanceGet ==
    /\ svc = "pool" /\ pOps < MaxPoolOps
    /\ LET g == bt_aics_free_instance_get(aics_pool)
       IN  /\ aics_pool' = g.pool
           /\ given' = [given EXCEPT !.aics = IF g.inst = 0 THEN @ ELSE Append(@, g.inst)]
           /\ plast' = [op |-> "bt_aics_free_instance_get",
                        ret |-> IF g.inst = 0 THEN "NULL" ELSE "inst", inst |-> g.inst]
    /\ pOps' = pOps + 1
    /\ UNCHANGED <<svc, trace, psri_gen, drawn, ascs_vars, aux_vars, vocs_pool, vcs_tab, vcs_inst, vocs_inst,
                   aics_inst, out, last, prev, notified, nOps, csis_vars, cli_vars>>

\* the application calls bt_vocs_init / bt_aics_init on an instance it was
\* handed out
PoolVocsInit(k, init, reg_ok) ==
    /\ svc = "pool" /\ pOps < MaxPoolOps
    /\ k \in 1 .. vocs_pool.instance_cnt
    /\ LET r == bt_vocs_init(vocs_pool.inst[k], init, reg_ok)
       IN  /\ vocs_pool' = [vocs_pool EXCEPT !.inst[k] = r.inst]
           /\ plast' = [op |-> "bt_vocs_init", ret |-> r.ret, inst |-> k]
    /\ pOps' = pOps + 1
    /\ UNCHANGED <<svc, trace, psri_gen, drawn, ascs_vars, aux_vars, aics_pool, vcs_tab, given, vcs_inst,
                   vocs_inst, aics_inst, out, last, prev, notified, nOps, csis_vars,
                   cli_vars>>

PoolAicsInit(k, init, reg_ok) ==
    /\ svc = "pool" /\ pOps < MaxPoolOps
    /\ k \in 1 .. aics_pool.instance_cnt
    /\ LET r == bt_aics_init(aics_pool.inst[k], init, reg_ok)
       IN  /\ aics_pool' = [aics_pool EXCEPT !.inst[k] = r.inst]
           /\ plast' = [op |-> "bt_aics_init", ret |-> r.ret, inst |-> k]
    /\ pOps' = pOps + 1
    /\ UNCHANGED <<svc, trace, psri_gen, drawn, ascs_vars, aux_vars, vocs_pool, vcs_tab, given, vcs_inst,
                   vocs_inst, aics_inst, out, last, prev, notified, nOps, csis_vars,
                   cli_vars>>

\* a build with nv VOCS and na AICS includes in the VCS table and pools that
\* hold at least as many instances
PoolInit ==
    /\ svc = "pool" /\ trace = FALSE /\ PsriOff /\ AscsOff /\ AuxOff
    /\ SrvOff /\ CsisOff /\ CliOff
    /\ \E nv \in 1 .. MaxInst : \E na \in 1 .. MaxInst :
         /\ vcs_tab = [user_data |-> [i \in 1 .. nv + na |-> NullDecl],
                       vocs_insts |-> [j \in 1 .. nv |-> 0],
                       aics_insts |-> [j \in 1 .. na |-> 0]]
         /\ \E pv \in nv .. MaxInst : vocs_pool = VocsPool(pv)
         /\ \E pa \in na .. MaxInst : aics_pool = AicsPool(pa)
    /\ given = [vocs |-> <<>>, aics |-> <<>>]
    /\ plast = NoPoolCall /\ pOps = 0

PoolNext ==
    \/ \E vbad \in 0 .. 1 : \E abad \in 0 .. 1 :
         \E reg_fail \in 0 .. Len(vcs_tab.user_data) + 1 : BtVcsInit(vbad, abad, reg_fail)
    \/ VocsFreeInstanceGet
    \/ AicsFreeInstanceGet
    \/ \E k \in 1 .. MaxInst + 1 : \E init \in { [offset |-> 255], [offset |-> 256] } :
         \E reg_ok \in BOOLEAN : PoolVocsInit(k, init, reg_ok)
    \/ \E k \in 1 .. MaxInst + 1 :
         \E init \in { AicsInitParam(10, AICS_STATE_MUTED, AICS_MODE_AUTO, -10, 10, 0),
                       AicsInitParam(0, 3, AICS_MODE_MANUAL, -10, 10, 0) } :
         \E reg_ok \in BOOLEAN : PoolAicsInit(k, init, reg_ok)

PoolSpec == PoolInit /\ [][PoolNext]_vars

\* ======================================================================
\* The guards of the three control points against every kind of bad write
\* ======================================================================
\* The writes of a peer when the counter is c: a valid opcode of either
\* length, an unknown opcode, the current counter or another one, an operand
\* inside or outside the range, every length 0 .. 4, offset 0 or 1.
GuardOpcodes(s) ==
    CASE s = "vcs" -> {VCS_OPCODE_REL_VOL_DOWN, VCS_OPCODE_SET_ABS_VOL, 7}
      [] s = "vocs" -> {VOCS_OPCODE_SET_OFFSET, 0}
      [] s = "aics" -> {AICS_OPCODE_SET_GAIN, AICS_OPCODE_MUTE, 0}
GuardOperands(s) ==
    CASE s = "vcs" -> {200}
      [] s = "vocs" -> {255, 256}
      [] s = "aics" -> {10, 11}
GuardRequests(s, c) ==
    { Rq(op, cb, v, len, o) :
        op \in GuardOpcodes(s), cb \in {c, Uint8(c + 1)}, v \in GuardOperands(s),
        len \in 0 .. 4, o \in {0, 1} }

GuardInit ==
    /\ svc \in {"vcs", "vocs", "aics"} /\ trace = TRUE /\ ExtOff
    /\ vcs_inst = VcsDefault /\ vocs_inst = VocsDefault /\ aics_inst = AicsDefault
    /\ out = <<>>
    /\ last = NoWrite /\ prev = NoWrite
    /\ notified = <<>>
    /\ nOps = 0
    /\ CsisOff /\ CliOff

GuardNext ==
    \/ /\ nOps < MaxCalls
       /\ \E rq \in GuardRequests("vcs", vcs_inst.change_counter) : VcsWrite(1, rq)
    \/ /\ nOps < MaxCalls
       /\ \E rq \in GuardRequests("vocs", vocs_inst.change_counter) : VocsWrite(1, rq)
    \/ /\ nOps < MaxCalls
       /\ \E rq \in GuardRequests("aics", aics_inst.change_counter) : AicsWrite(1, rq)

GuardSpec == GuardInit /\ [][GuardNext]_vars

\* ======================================================================
\* The description characteristics of AICS and VOCS
\* ======================================================================
\* A description is a char array of MaxDescSize bytes
\* (CONFIG_BT_AICS_MAX_INPUT_DESCRIPTION_SIZE,
\* CONFIG_BT_VOCS_MAX_OUTPUT_DESCRIPTION_SIZE); byte 0 is NUL.
DescChars == {1, 2}

\* the values a peer writes: strings without NUL, up to the size of the array
DescStrings == UNION { [1 .. n -> DescChars] : n \in 0 .. MaxDescSize }

strlen(b) ==
    LET Z == { i \in DOMAIN b : b[i] = 0 }
    IN  IF Z = {} THEN Len(b) ELSE (CHOOSE m \in Z : \A j \in Z : m <= j) - 1

\* the C string an array holds
StrOf(b) == SubSeq(b, 1, strlen(b))

\* strncpy(dest, src, sizeof(dest)) into the zeroed array of the pool
strncpy(src) ==
    [i \in 1 .. MaxDescSize |-> IF i <= Len(src) THEN src[i] ELSE 0]

\* "if (len >= sizeof(desc)) len = sizeof(desc) - 1"
desc_clip(len) == IF len >= MaxDescSize THEN MaxDescSize - 1 ELSE len

\* memcmp(buf, desc, len) != 0
memcmp(buf, desc, len) == \E i \in 1 .. len : buf[i] # desc[i]

\* memcpy(desc, buf, len); desc[len] = '\0'
desc_store(desc, buf, len) ==
    [i \in DOMAIN desc |-> IF i <= len THEN buf[i] ELSE IF i = len + 1 THEN 0 ELSE desc[i]]

\* what a description write does: the array afterwards, the notifications
\* sent, the description callbacks and the return value
DescResult(desc, ntf, cb, ret) ==
    [desc |-> desc, notified |-> ntf, cb |-> cb, ret |-> ret]

\* write_input_desc of AICS
write_input_desc(desc, buf) ==
    LET len == desc_clip(Len(buf))
    IN  IF memcmp(buf, desc, len)
        THEN LET d == desc_store(desc, buf, len)
             IN  DescResult(d, << StrOf(d) >>, << StrOf(d) >>, len)
        ELSE DescResult(desc, <<>>, <<>>, len)

\* write_output_desc of VOCS
write_output_desc(desc, buf) ==
    LET len == desc_clip(Len(buf))
    IN  IF len # strlen(desc) \/ memcmp(buf, desc, len)
        THEN LET d == desc_store(desc, buf, len)
             IN  DescResult(d, << StrOf(d) >>, << StrOf(d) >>, len)
        ELSE DescResult(desc, <<>>, <<>>, len)

DRecord(op, s, pre, r) ==
    /\ dlast' = [op |-> op, s |-> s, pre |-> StrOf(pre), ret |-> r.ret,
                 notified |-> r.notified, cb |-> r.cb, n |-> dlast.n + 1]
    /\ UNCHANGED <<svc, trace, psri_gen, drawn, pool_vars, ascs_vars, disc, xlast, wrap, vcs_inst,
                   vocs_inst, aics_inst, out, last, prev, notified, nOps, csis_vars, cli_vars>>

\* a peer writes the Audio Input Description of a writable instance
WriteInputDesc(s) ==
    /\ svc = "desc" /\ dlast.n < MaxDescOps
    /\ LET r == write_input_desc(descr.input_desc, s)
       IN  /\ descr' = [descr EXCEPT !.input_desc = r.desc]
           /\ DRecord("input", s, descr.input_desc, r)

\* a peer writes the Audio Output Description of a writable instance
WriteOutputDesc(s) ==
    /\ svc = "desc" /\ dlast.n < MaxDescOps
    /\ LET r == write_output_desc(descr.output_desc, s)
       IN  /\ descr' = [descr EXCEPT !.output_desc = r.desc]
           /\ DRecord("output", s, descr.output_desc, r)

\* after bt_aics_init and bt_vocs_init with a description that fits
DescInit ==
    /\ svc = "desc" /\ trace = FALSE /\ PsriOff /\ PoolOff /\ AscsOff /\ DiscOff /\ WrapOff
    /\ SrvOff /\ CsisOff /\ CliOff
    /\ \E a, b \in { s \in DescStrings : Len(s) < MaxDescSize } :
          descr = [input_desc |-> strncpy(a), output_desc |-> strncpy(b)]
    /\ dlast = NoDescWrite

DescNext ==
    \/ \E s \in DescStrings : WriteInputDesc(s)
    \/ \E s \in DescStrings : WriteOutputDesc(s)

DescSpec == DescInit /\ [][DescNext]_vars

\* ======================================================================
\* ASCS: the sessions and the control point
\* ======================================================================
BT_ADDR_LE_ANY == 0
BT_ATT_ERR_NOT_SUPPORTED == 6

\* a zeroed ASE: status.id 0, state Idle, no channel bound, no codec
AseZero == [id |-> 0, state |-> "Idle", chan |-> FALSE, codec |-> 0]

\* a zeroed session: no connection, no peer address
NoSession == [conn |-> 0, peer |-> BT_ADDR_LE_ANY, ases |-> [k \in 1 .. MaxAse |-> AseZero]]

\* bt_audio_chan_release(chan, cache) as the ASE sees it: a cached release
\* keeps the codec configuration and the channel; another one starts
\* releasing, and ase_status_changed drops the channel (ase_chan_del)
bt_audio_chan_release(ase, cache) ==
    IF cache THEN [ase EXCEPT !.state = "Config"]
    ELSE [ase EXCEPT !.state = "Releasing", !.chan = FALSE]

\* bt_audio_chan_config / bt_audio_chan_reconfig as the ASE sees it
bt_audio_chan_config(ase) == [ase EXCEPT !.state = "Config", !.chan = TRUE]

\* the state an accepted opcode leaves the ASE in, by the endpoint state
\* machine; "" when the opcode is not legal in the state
chan_next_state(op, state) ==
    CASE op = "QoS" /\ state \in {"Config", "QoS"} -> "QoS"
      [] op = "Enable" /\ state = "QoS" -> "Enabling"
      [] op = "Start" /\ state = "Enabling" -> "Streaming"
      [] op = "Disable" /\ state \in {"Enabling", "Streaming"} -> "Disabling"
      [] op = "Stop" /\ state = "Disabling" -> "QoS"
      [] op = "Metadata" /\ state \in {"Enabling", "Streaming"} -> state
      [] op = "Release" /\ state # "Idle" -> "Releasing"
      [] OTHER -> ""

\* bt_audio_chan_qos, _enable, _start, _disable, _stop, _metadata, _release
\* on the channel of an ASE: the ASE afterwards and the errno ("ok": 0).
\* res is the failure the channel layer reports for its own reasons.
bt_audio_chan_op(ase, op, res) ==
    IF ~ase.chan THEN [ase |-> ase, err |-> "EINVAL"]
    ELSE IF res \in {"EINVAL", "ENOTSUP", "EBADMSG"} THEN [ase |-> ase, err |-> res]
    ELSE IF chan_next_state(op, ase.state) = "" THEN [ase |-> ase, err |-> "EBADMSG"]
    ELSE IF op = "Release" THEN [ase |-> bt_audio_chan_release(ase, FALSE), err |-> "ok"]
    ELSE [ase |-> [ase EXCEPT !.state = chan_next_state(op, ase.state)], err |-> "ok"]

ascs_clear(s) ==
    [conn |-> 0, peer |-> BT_ADDR_LE_ANY,
     ases |-> [k \in DOMAIN s.ases |->
                 IF s.ases[k].state # "Idle"
                 THEN [bt_audio_chan_release(s.ases[k], FALSE) EXCEPT !.state = "Idle"]
                 ELSE s.ases[k]]]

ascs_dettach(s) ==
    [conn |-> 0, peer |-> s.conn,
     ases |-> [k \in DOMAIN s.ases |->
                 IF s.ases[k].state # "Idle"
                 THEN bt_audio_chan_release(s.ases[k], TRUE) ELSE s.ases[k]]]

\* the disconnected callback (registered by the first ascs_new; before that
\* no session has a connection)
disconnected(ss, conn, bonded) ==
    [i \in DOMAIN ss |->
        IF ss[i].conn # conn THEN ss[i]
        ELSE IF ~bonded THEN ascs_clear(ss[i]) ELSE ascs_dettach(ss[i])]

\* the test of ascs_new with the peer address left out
session_free_any_peer(s) == s.conn = 0

\* the test of ascs_new: !sessions[i].conn && peer == BT_ADDR_LE_ANY
session_free(s) == s.conn = 0 /\ s.peer = BT_ADDR_LE_ANY

\* ascs_new: the sessions afterwards and the session returned (0: NULL)
ascs_new(ss, conn) ==
    LET F == { i \in DOMAIN ss : session_free(ss[i]) }
        i == CHOOSE m \in F : \A j \in F : m <= j
    IN  IF F = {} THEN [ss |-> ss, idx |-> 0]
        ELSE [ss |-> [ss EXCEPT ![i].conn = conn,
                                ![i].ases = [k \in 1 .. MaxAse |-> AseZero]],
              idx |-> i]

\* ascs_find; bt_conn_is_peer_addr_le: the connection is one of the peer
ascs_find(ss, conn) ==
    LET M == { i \in DOMAIN ss :
                 \/ ss[i].conn = conn
                 \/ (ss[i].conn = 0 /\ ss[i].peer = conn) }
        i == CHOOSE m \in M : \A j \in M : m <= j
    IN  IF M = {} THEN [ss |-> ss, idx |-> 0]
        ELSE IF ss[i].conn = conn THEN [ss |-> ss, idx |-> i]
        ELSE [ss |-> [ss EXCEPT ![i].conn = conn], idx |-> i]

ascs_get(ss, conn) ==
    IF ascs_find(ss, conn).idx # 0 THEN ascs_find(ss, conn) ELSE ascs_new(ss, conn)

\* ase_find: the position of the ASE with the id (0: NULL)
ase_find(ases, id) ==
    IF id = 0 \/ id > MaxAse THEN 0
    ELSE IF ases[id].id = id THEN id ELSE 0

\* ase_new: the ASEs afterwards and the position of the new ASE (0: NULL);
\* ase_init zeroes the ASE and gives it the id
ase_new(ases, id) ==
    LET Z == { k \in DOMAIN ases : ases[k].id = 0 }
        z == CHOOSE m \in Z : \A j \in Z : m <= j
    IN  IF id # 0
        THEN IF id > MaxAse THEN [ases |-> ases, k |-> 0]
             ELSE [ases |-> [ases EXCEPT ![id] = [AseZero EXCEPT !.id = id]], k |-> id]
        ELSE IF Z = {} THEN [ases |-> ases, k |-> 0]
        ELSE [ases |-> [ases EXCEPT ![z] = [AseZero EXCEPT !.id = z]], k |-> z]

\* ase_get, and ascs_config's "cfg->ase ? ase_get(..) : ase_new(ascs, 0)"
ase_get(ases, id) ==
    IF ase_find(ases, id) # 0 THEN [ases |-> ases, k |-> ase_find(ases, id)]
    ELSE ase_new(ases, id)

\* ---- the control-point response in rsp_buf
\* one entry of the control-point response
AseRsp(id, code) == [id |-> id, code |-> code]

\* rsp_buf after net_buf_simple_reset
RspEmpty == [num_ase |-> 0, entries |-> <<>>]

\* ascs_cp_rsp_add: nothing is added once Number_of_ASEs is 0xff
ascs_cp_rsp_add(rsp, id, code) ==
    IF rsp.num_ase = 255 THEN rsp
    ELSE [num_ase |-> IF code \in {"NotSupported", "Truncated"} THEN 255
                      ELSE rsp.num_ase + 1,
          entries |-> Append(rsp.entries, AseRsp(id, code))]

\* ascs_cp_rsp_add_errno: the response code of an errno under an opcode
ascs_cp_rsp_add_errno(rsp, id, op, err) ==
    ascs_cp_rsp_add(rsp, id,
        CASE err = "ENOMEM" -> "NoMem"
          [] err = "EINVAL" ->
                IF op \in {"Config", "QoS"} THEN "ConfInvalid"
                ELSE IF op \in {"Enable", "Metadata"} THEN "MetadataInvalid"
                ELSE "Unspecified"
          [] err = "ENOTSUP" ->
                IF op \in {"Config", "QoS"} THEN "ConfUnsupported"
                ELSE IF op \in {"Enable", "Metadata"} THEN "MetadataUnsupported"
                ELSE "NotSupported"
          [] err = "EBADMSG" -> "InvalidAseState"
          [] OTHER -> "Unspecified")

\* ---- one ASE under an opcode: the ASE and the response afterwards
\* memcpy(&ase->ep.codec, &codec, sizeof(codec)) (mutant: left out)
codec_restore_none(ase, codec) == ase
codec_restore(ase, codec) == [ase EXCEPT !.codec = codec]

\* ase_config.  rq.lat_ok: latency and PHY are in 1..3; rq.res: "codec_bad"
\* when bt_audio_ep_set_codec rejects the codec data, an errno when the
\* channel layer rejects the configuration.  bt_audio_ep_set_codec writes
\* into ase->ep.codec.
ase_config(ase, rq, rsp) ==
    LET set == [ase EXCEPT !.codec = rq.codec]
    IN  IF ~rq.lat_ok
        THEN [ase |-> ase, rsp |-> ascs_cp_rsp_add(rsp, ase.id, "ConfInvalid")]
        ELSE IF ase.state \notin {"Idle", "Config", "QoS"}
        THEN [ase |-> ase, rsp |-> ascs_cp_rsp_add(rsp, ase.id, "InvalidAseState")]
        ELSE IF rq.res = "codec_bad"
        THEN [ase |-> codec_restore(set, ase.codec),
              rsp |-> ascs_cp_rsp_add(rsp, ase.id, "ConfInvalid")]
        ELSE IF ase.chan
        THEN IF rq.res # "ok"
             THEN [ase |-> codec_restore(set, ase.codec),
                   rsp |-> ascs_cp_rsp_add_errno(rsp, ase.id, "Config", rq.res)]
             ELSE [ase |-> bt_audio_chan_config(set),
                   rsp |-> ascs_cp_rsp_add(rsp, ase.id, "Success")]
        ELSE IF rq.res # "ok"
             THEN [ase |-> codec_restore(set, ase.codec),
                   rsp |-> ascs_cp_rsp_add(rsp, ase.id, "ConfRejected")]
             ELSE [ase |-> bt_audio_chan_config(set),
                   rsp |-> ascs_cp_rsp_add(rsp, ase.id, "Success")]

\* ase_qos, ase_enable, ase_start, ase_disable, ase_stop, ase_metadata,
\* ase_release(ase, false).  ase_start hands the errno itself to
\* ascs_cp_rsp_add as the response code.
ase_op(ase, rq, rsp) ==
    LET r == bt_audio_chan_op(ase, rq.op, rq.res)
    IN  [ase |-> r.ase,
         rsp |-> IF r.err = "ok" THEN ascs_cp_rsp_add(rsp, ase.id, "Success")
                 ELSE IF rq.op = "Start" THEN ascs_cp_rsp_add(rsp, ase.id, r.err)
                 ELSE ascs_cp_rsp_add_errno(rsp, ase.id, rq.op, r.err)]

\* the response code of an ASE ID that ase_find does not find
\* (ascs_disable answers Invalid ASE State)
no_ase_code(op) == IF op = "Disable" THEN "InvalidAseState" ELSE "InvalidAse"

\* The loop of ascs_config, ascs_qos, ascs_enable, ascs_start, ascs_disable,
\* ascs_stop, ascs_metadata and ascs_release from the i-th ASE ID on.
\* rq.cut = "mid": the codec data or metadata of the last ASE ID is shorter
\* than its length field (Config, Enable, Metadata).
\* The result: the ASEs, the response, the return value.
RECURSIVE ascs_op_loop(_, _, _, _)
ascs_op_loop(ases, rq, i, rsp) ==
    IF i > Len(rq.ases) THEN [ases |-> ases, rsp |-> rsp, ret |-> 0]
    ELSE IF rq.cut = "mid" /\ i = Len(rq.ases)
            /\ rq.op \in {"Config", "Enable", "Metadata"}
    THEN [ases |-> ases, rsp |-> rsp, ret |-> BT_ATT_ERR_INVALID_ATTRIBUTE_LEN]
    ELSE LET id == rq.ases[i]
             g == IF rq.op = "Config" THEN ase_get(ases, id)
                  ELSE [ases |-> ases, k |-> ase_find(ases, id)]
         IN  IF g.k = 0
             THEN ascs_op_loop(ases, rq, i + 1,
                               ascs_cp_rsp_add(rsp, id, no_ase_code(rq.op)))
             ELSE LET r == IF rq.op = "Config" THEN ase_config(g.ases[g.k], rq, rsp)
                           ELSE ase_op(g.ases[g.k], rq, rsp)
                  IN  ascs_op_loop([g.ases EXCEPT ![g.k] = r.ase], rq, i + 1, r.rsp)

\* ascs_config .. ascs_release; rq.cut = "head": the buffer is shorter than
\* the header or than num_ases entries
ascs_op(ases, rq, rsp) ==
    IF rq.cut = "head"
    THEN [ases |-> ases, rsp |-> rsp, ret |-> BT_ATT_ERR_INVALID_ATTRIBUTE_LEN]
    ELSE ascs_op_loop(ases, rq, 1, rsp)

AscsOpcodes == {"Config", "QoS", "Enable", "Start", "Disable", "Stop", "Metadata", "Release"}

\* What ascs_cp_write does: the sessions afterwards, the ATT error (0: the
\* write is accepted), the session used (0: none), whether ascs_cp_notify
\* read ascs->handle and ascs->conn through a NULL ascs, the response and
\* the number of calls of ascs_cp_notify.
\* For an unknown opcode ret is read without having been set; whatever it
\* holds, the Truncated entry it may ask for is not added, Number_of_ASEs
\* being 0xff already.
CpResult(ss, err, session, null_deref, rsp, notifications) ==
    [ss |-> ss, err |-> err, session |-> session, null_deref |-> null_deref, rsp |-> rsp,
     notifications |-> notifications]

ascs_cp_write(ss, conn, rq) ==
    IF rq.offset # 0 THEN CpResult(ss, BT_ATT_ERR_INVALID_OFFSET, 0, FALSE, RspEmpty, 0)
    ELSE IF ~rq.len_ok
    THEN CpResult(ss, BT_ATT_ERR_INVALID_ATTRIBUTE_LEN, 0, FALSE, RspEmpty, 0)
    ELSE LET g == ascs_get(ss, conn)
         IN  IF g.idx = 0
             THEN CpResult(ss, BT_ATT_ERR_UNLIKELY, 0, TRUE,
                           ascs_cp_rsp_add(RspEmpty, 0, "Unspecified"), 1)
             ELSE IF rq.op \in AscsOpcodes
             THEN LET c == ascs_op(g.ss[g.idx].ases, rq, RspEmpty)
                  IN  CpResult([g.ss EXCEPT ![g.idx].ases = c.ases], 0, g.idx, FALSE,
                               IF c.ret = BT_ATT_ERR_INVALID_ATTRIBUTE_LEN
                               THEN ascs_cp_rsp_add(c.rsp, 0, "Truncated") ELSE c.rsp,
                               1)
             ELSE CpResult(g.ss, BT_ATT_ERR_NOT_SUPPORTED, g.idx, FALSE,
                           ascs_cp_rsp_add(ascs_cp_rsp_add(RspEmpty, 0, "NotSupported"),
                                           0, "Truncated"),
                           1)

\* ase_process, the work item a status change of the ASE submits: an ASE in
\* Releasing without channel becomes Idle
ase_process(ase) ==
    IF ase.state = "Releasing" /\ ~ase.chan THEN [ase EXCEPT !.state = "Idle"] ELSE ase

\* a control-point request: the opcode, whether the write has the opcode
\* byte, its offset, the ASE IDs, the codec asked for, and what the layers
\* below make of it
AscsRq(op, len_ok, offset, ases, cut, lat_ok, codec, res) ==
    [op |-> op, len_ok |-> len_ok, offset |-> offset, ases |-> ases, cut |-> cut,
     lat_ok |-> lat_ok, codec |-> codec, res |-> res]

\* ------------------------------------------------------------ ASCS actions
\* There are CONFIG_BT_MAX_CONN sessions (MaxSess), so at most that many
\* peers are connected at a time.
ARecord(op, conn, r, fault, bonded) ==
    /\ sessions' = r.ss
    /\ alast' = [op |-> op, conn |-> conn, err |-> r.err, session |-> r.session,
                 null_deref |-> r.null_deref, fault |-> fault, rsp |-> r.rsp.entries,
                 bonded |-> bonded, pre |-> sessions]
    /\ aOps' = aOps + 1
    /\ UNCHANGED <<svc, trace, psri_gen, drawn, pool_vars, aux_vars, vcs_inst, vocs_inst, aics_inst,
                   out, last, prev, notified, nOps, csis_inst, holder, clast, cOps,
                   cli_vars>>

\* the control-point writes of a peer
AscsRequests ==
    { AscsRq(op, l, o, << id >>, "none", TRUE, 1, "ok") :
        op \in {"Config", "Other"}, l \in BOOLEAN, o \in {0, 1}, id \in 0 .. MaxAse + 1 }

\* a connected peer writes the ASE control point.  Reading through the NULL
\* session is undefined: the read faults (fault) or yields whatever is stored
\* at address 0 and the write returns.
AscsCpWrite(p, rq, fault) ==
    /\ svc = "ascs" /\ aOps < MaxAscsOps /\ ~alast.fault
    /\ p \in conns
    /\ LET r == ascs_cp_write(sessions, p, rq)
       IN  /\ fault => r.null_deref
           /\ ARecord("cp_write", p, r, fault, p \in bonds)
    /\ UNCHANGED <<conns, bonds>>

AscsConnect(p) ==
    /\ svc = "ascs" /\ aOps < MaxAscsOps /\ ~alast.fault
    /\ p \notin conns /\ Cardinality(conns) < MaxSess
    /\ conns' = conns \cup {p}
    /\ ARecord("connect", p, CpResult(sessions, 0, 0, FALSE, RspEmpty, 0), FALSE, p \in bonds)
    /\ UNCHANGED bonds

AscsDisconnect(p) ==
    /\ svc = "ascs" /\ aOps < MaxAscsOps /\ ~alast.fault
    /\ p \in conns
    /\ conns' = conns \ {p}
    /\ ARecord("disconnect", p,
               CpResult(disconnected(sessions, p, p \in bonds), 0, 0, FALSE, RspEmpty, 0),
               FALSE, p \in bonds)
    /\ UNCHANGED bonds

\* pairing with bonding completes, or the bond is removed
AscsBond(p, bonded) ==
    /\ svc = "ascs" /\ aOps < MaxAscsOps /\ ~alast.fault
    /\ IF bonded THEN p \in conns /\ p \notin bonds ELSE p \in bonds
    /\ bonds' = IF bonded THEN bonds \cup {p} ELSE bonds \ {p}
    /\ ARecord("bond", p, CpResult(sessions, 0, 0, FALSE, RspEmpty, 0), FALSE, bonded)
    /\ UNCHANGED conns

AscsInit ==
    /\ svc = "ascs" /\ trace = FALSE /\ PsriOff /\ PoolOff /\ AuxOff
    /\ SrvOff /\ CliOff
    /\ csis_inst = CsisDefault /\ holder = {} /\ clast = NoEvent /\ cOps = 0
    /\ conns \in { C \in SUBSET Peers : Cardinality(C) <= MaxSess }
    /\ bonds \in SUBSET Peers
    /\ sessions = [i \in 1 .. MaxSess |-> NoSession]
    /\ alast = NoAscsEvent /\ aOps = 0

AscsNext ==
    \/ \E p \in Peers : \E rq \in AscsRequests : \E fault \in BOOLEAN : AscsCpWrite(p, rq, fault)
    \/ \E p \in Peers : AscsConnect(p)
    \/ \E p \in Peers : AscsDisconnect(p)
    \/ \E p \in Peers : \E bonded \in BOOLEAN : AscsBond(p, bonded)

AscsSpec == AscsInit /\ [][AscsNext]_vars

\* ------------------------------------------------- ASCS: the opcodes on ASEs
\* One peer is connected with its session attached; its first ASE is in any
\* state earlier control-point writes can have left it in, the others are
\* not in use yet.
Codecs == {1, 2}

\* an ASE as control-point writes and work items leave it
AseStates(k) ==
    {AseZero}
    \cup { [id |-> k, state |-> "Idle", chan |-> FALSE, codec |-> c] : c \in {0} \cup Codecs }
    \cup { [id |-> k, state |-> st, chan |-> TRUE, codec |-> c] :
             st \in {"Config", "QoS", "Enabling", "Streaming", "Disabling"}, c \in Codecs }
    \cup { [id |-> k, state |-> "Releasing", chan |-> FALSE, codec |-> c] : c \in Codecs }

\* the lists of ASE IDs of a write: one ID, or an existing position and one
\* beyond the last ASE in either order
AseIdLists ==
    { << id >> : id \in 0 .. MaxAse + 1 } \cup { << 1, MaxAse + 1 >>, << MaxAse + 1, 1 >> }

AseRequests ==
    { AscsRq("Config", TRUE, 0, l, "none", TRUE, c, res) :
        l \in AseIdLists, c \in Codecs, res \in {"ok", "codec_bad", "EINVAL"} }
    \cup { AscsRq("Config", TRUE, 0, l, cut, TRUE, 1, "ok") :
             l \in AseIdLists, cut \in {"head", "mid"} }
    \cup { AscsRq("Config", TRUE, 0, l, "none", FALSE, 1, "ok") : l \in AseIdLists }
    \cup { AscsRq(op, TRUE, 0, l, "none", TRUE, 1, res) :
             op \in AscsOpcodes \ {"Config"}, l \in AseIdLists \ {<< 0 >>},
             res \in {"ok", "ENOTSUP"} }
    \cup { AscsRq(op, TRUE, 0, << 1 >>, "head", TRUE, 1, "ok") :
             op \in AscsOpcodes \ {"Config"} }
    \cup { AscsRq(op, TRUE, 0, l, "mid", TRUE, 1, "ok") :
             op \in {"Enable", "Metadata"}, l \in AseIdLists \ {<< 0 >>} }
    \cup { AscsRq("Other", TRUE, 0, << 1 >>, "none", TRUE, 1, "ok") }
    \cup { AscsRq("Config", l, o, << 1 >>, "none", TRUE, 1, "ok") :
             l \in BOOLEAN, o \in {0, 1} }

AseRecord(op, rq, r) ==
    /\ sessions' = r.ss
    /\ alast' = [op |-> op, rq |-> rq, err |-> r.err, session |-> r.session,
                 rsp |-> r.rsp, notifications |-> r.notifications, pre |-> sessions]
    /\ aOps' = aOps + 1
    /\ UNCHANGED <<svc, trace, psri_gen, drawn, pool_vars, aux_vars, vcs_inst, vocs_inst, aics_inst,
                   out, last, prev, notified, nOps, csis_vars, cli_vars>>

\* the peer writes the ASE control point
AseCpWrite(rq) ==
    /\ svc = "ase" /\ aOps < MaxAseOps
    /\ AseRecord("cp_write", rq, ascs_cp_write(sessions, 1, rq))

\* the work item of an ASE whose state changed runs
AseProcess(k) ==
    /\ svc = "ase" /\ aOps < MaxAseOps
    /\ sessions[1].ases[k].state = "Releasing"
    /\ AseRecord("process", AscsRq("none", TRUE, 0, << k >>, "none", TRUE, 1, "ok"),
                 CpResult([sessions EXCEPT ![1].ases[k] = ase_process(@)],
                          0, 1, FALSE, RspEmpty, 0))

AseInit ==
    /\ svc = "ase" /\ trace = FALSE /\ PsriOff /\ PoolOff /\ AuxOff
    /\ SrvOff /\ CliOff
    /\ csis_inst = CsisDefault /\ holder = {} /\ clast = NoEvent /\ cOps = 0
    /\ conns = {1} /\ bonds = {}
    /\ \E a \in AseStates(1) :
          sessions = [i \in 1 .. MaxSess |->
                        IF i = 1
                        THEN [conn |-> 1, peer |-> BT_ADDR_LE_ANY,
                              ases |-> [k \in 1 .. MaxAse |-> IF k = 1 THEN a ELSE AseZero]]
                        ELSE NoSession]
    /\ alast = NoAscsEvent /\ aOps = 0

AseNext ==
    \/ \E rq \in AseRequests : AseCpWrite(rq)
    \/ \E k \in 1 .. MaxAse : AseProcess(k)

AseSpec == AseInit /\ [][AseNext]_vars

\* ======================================================================
\* VCS client: discovery
\* ======================================================================
\* CONFIG_BT_VCS_CLIENT_MAX_AICS_INST and CONFIG_BT_VCS_CLIENT_MAX_VOCS_INST
\* are MaxInst here.
\* what a discovery handler returns: the client, the return value, the
\* discover callbacks made (err, aics_count, vocs_count)
DiscResult(d, ret, cb) == [d |-> d, ret |-> ret, cb |-> cb]
DiscoverCb(err, aics_cnt, vocs_cnt) == [err |-> err, aics_cnt |-> aics_cnt, vocs_cnt |-> vocs_cnt]

\* the test of bt_vcs_discover for a discovery in progress
discover_busy(d) == d.cur_vcs

\* bt_vcs_discover; gatt_err: bt_gatt_discover fails
bt_vcs_discover(d, gatt_err) ==
    IF discover_busy(d) THEN DiscResult(d, "EBUSY", <<>>)
    ELSE LET z == [DiscIdle EXCEPT !.func = "primary", !.inflight = d.inflight]
         IN  IF gatt_err THEN DiscResult(z, "ENOMEM", <<>>)
             ELSE DiscResult([z EXCEPT !.inflight = @ + 1], "OK", <<>>)

\* discover_params.func = f; err = bt_gatt_discover(conn, &discover_params);
\* if (err) { cur_vcs_inst = NULL; discover(conn, err, a, v) }
next_discover(d, f, gatt_err, a, v) ==
    IF gatt_err
    THEN DiscResult([d EXCEPT !.cur_vcs = FALSE, !.func = f], "STOP",
                    <<DiscoverCb("ENOMEM", a, v)>>)
    ELSE DiscResult([d EXCEPT !.func = f, !.inflight = @ + 1], "STOP", <<>>)

\* the discovery is over: cur_vcs_inst = NULL; discover(conn, err, a, v)
discover_end(d, err, a, v) ==
    DiscResult([d EXCEPT !.cur_vcs = FALSE], "STOP", <<DiscoverCb(err, a, v)>>)

\* primary_discover_func; attr: "none" (NULL) or "found"
primary_discover_func(d, attr, gatt_err) ==
    IF attr = "none" THEN discover_end(d, "ENODATA", 0, 0)
    ELSE next_discover([d EXCEPT !.cur_vcs = TRUE], "vcs", gatt_err, 0, 0)

\* vcs_discover_func
vcs_discover_func(d, attr, gatt_err) ==
    IF attr = "none" THEN next_discover(d, "include", gatt_err, 0, 0)
    ELSE DiscResult([d EXCEPT !.handles = TRUE], "CONTINUE", <<>>)

\* vcs_discover_include_func; attr: "none", or the service included
vcs_discover_include_func(d, attr, gatt_err) ==
    IF attr = "none"
    THEN IF d.aics_cnt # 0
         THEN next_discover([d EXCEPT !.cur_aics = 1], "aics", gatt_err, 0, 0)
         ELSE IF d.vocs_cnt # 0
         THEN next_discover([d EXCEPT !.cur_vocs = 1], "vocs", gatt_err, 0, 0)
         ELSE discover_end(d, 0, 0, 0)
    ELSE IF attr = "aics" /\ d.aics_cnt < MaxInst
    THEN DiscResult([d EXCEPT !.aics_cnt = @ + 1], "CONTINUE", <<>>)
    ELSE IF attr = "vocs" /\ d.vocs_cnt < MaxInst
    THEN DiscResult([d EXCEPT !.vocs_cnt = @ + 1], "CONTINUE", <<>>)
    ELSE DiscResult(d, "CONTINUE", <<>>)

\* aics_discover_func (cur_aics: the position of cur_aics_inst, index + 1)
aics_discover_func(d, attr, gatt_err) ==
    IF attr = "none"
    THEN IF d.cur_aics < d.aics_cnt
         THEN next_discover([d EXCEPT !.cur_aics = @ + 1], "aics", gatt_err,
                            d.aics_cnt, d.vocs_cnt)
         ELSE IF d.vocs_cnt # 0
         THEN next_discover([d EXCEPT !.cur_vocs = 1], "vocs", gatt_err,
                            d.aics_cnt, d.vocs_cnt)
         ELSE discover_end(d, 0, d.aics_cnt, d.vocs_cnt)
    ELSE DiscResult(d, "CONTINUE", <<>>)

\* vocs_discover_func
vocs_discover_func(d, attr, gatt_err) ==
    IF attr = "none"
    THEN IF d.cur_vocs < d.vocs_cnt
         THEN next_discover([d EXCEPT !.cur_vocs = @ + 1], "vocs", gatt_err,
                            d.aics_cnt, d.vocs_cnt)
         ELSE discover_end(d, 0, d.aics_cnt, d.vocs_cnt)
    ELSE DiscResult(d, "CONTINUE", <<>>)

\* the attributes a discovery procedure hands to discover_params.func
DiscAttrs(f) ==
    IF f = "include" THEN {"none", "aics", "vocs"} ELSE {"none", "found"}

\* ----------------------------------------------------- discovery actions
\* running: a discovery was accepted and its callback has not been made;
\* overlapped: a call made while one was running was not answered Busy
XRecord(op, r, calls, steps) ==
    /\ disc' = r.d
    /\ xlast' = [op |-> op, ret |-> r.ret, cb |-> r.cb, pre |-> disc,
                 pre_running |-> xlast.running,
                 running |-> IF op = "discover" THEN xlast.running \/ r.ret = "OK"
                             ELSE xlast.running /\ r.cb = <<>>,
                 overlapped |-> xlast.overlapped
                                \/ (op = "discover" /\ xlast.running /\ r.ret # "EBUSY"),
                 calls |-> calls, steps |-> steps]
    /\ UNCHANGED <<svc, trace, psri_gen, drawn, pool_vars, ascs_vars, descr, dlast, wrap, vcs_inst,
                   vocs_inst, aics_inst, out, last, prev, notified, nOps, csis_vars, cli_vars>>

\* the application calls bt_vcs_discover(conn)
VcsDiscover(gatt_err) ==
    /\ svc = "disc" /\ xlast.calls < MaxDiscCalls
    /\ XRecord("discover", bt_vcs_discover(disc, gatt_err), xlast.calls + 1, xlast.steps)

\* a discovery procedure calls discover_params.func with an attribute or, at
\* its end, with NULL; it is over when the function returns STOP
DiscStep(attr, gatt_err) ==
    /\ svc = "disc" /\ xlast.steps < MaxDiscSteps
    /\ disc.inflight > 0 /\ attr \in DiscAttrs(disc.func)
    /\ LET d == disc
           r == CASE d.func = "primary" -> primary_discover_func(d, attr, gatt_err)
                  [] d.func = "vcs" -> vcs_discover_func(d, attr, gatt_err)
                  [] d.func = "include" -> vcs_discover_include_func(d, attr, gatt_err)
                  [] d.func = "aics" -> aics_discover_func(d, attr, gatt_err)
                  [] OTHER -> vocs_discover_func(d, attr, gatt_err)
       IN  XRecord("step",
                   IF r.ret = "STOP" THEN [r EXCEPT !.d.inflight = @ - 1] ELSE r,
                   xlast.calls, xlast.steps + 1)

DiscInit ==
    /\ svc = "disc" /\ trace = FALSE /\ PsriOff /\ PoolOff /\ AscsOff /\ AuxOff
    /\ SrvOff /\ CsisOff /\ CliOff

DiscNext ==
    \/ \E gatt_err \in BOOLEAN : VcsDiscover(gatt_err)
    \/ \E attr \in {"none", "found", "aics", "vocs"} : \E gatt_err \in BOOLEAN :
          DiscStep(attr, gatt_err)

DiscSpec == DiscInit /\ [][DiscNext]_vars

\* ======================================================================
\* VCS server: a write with a counter read many changes ago
\* ======================================================================
\* A client read the Volume State; other clients then write the control
\* point with the current counter; at some point the first client writes
\* with the counter it read.
\* the requests of the other clients and of the first one: opcode, volume
WrapRequests ==
    { << VCS_OPCODE_MUTE, 0 >>, << VCS_OPCODE_UNMUTE, 0 >>,
      << VCS_OPCODE_SET_ABS_VOL, 100 >>, << VCS_OPCODE_SET_ABS_VOL, 200 >> }

\* the length of a well-formed request of the opcode
WrapLen(opcode) == IF opcode = VCS_OPCODE_SET_ABS_VOL THEN VCS_CP_ABS_VOL_LEN ELSE VCS_CP_LEN

WrapUnchanged ==
    UNCHANGED <<svc, trace, psri_gen, drawn, pool_vars, ascs_vars, descr, dlast, disc, xlast,
                vocs_inst, aics_inst, out, last, prev, notified, nOps, csis_vars, cli_vars>>

\* another client writes with the current counter; k counts the writes
\* that changed volume or mute
WrapChange(rq) ==
    /\ svc = "wrap" /\ wrap.op # "stale" /\ wrap.k < MaxChanges
    /\ LET r == write_vcs_control(vcs_inst,
                                  [opcode |-> rq[1], counter |-> vcs_inst.change_counter,
                                   volume |-> rq[2]], WrapLen(rq[1]), 0)
       IN  /\ vcs_inst' = r.inst
           /\ wrap' = [wrap EXCEPT !.op = "change", !.err = r.err, !.rq = rq,
                                   !.pre = vcs_inst,
                                   !.k = IF << r.inst.volume, r.inst.mute >>
                                             # << vcs_inst.volume, vcs_inst.mute >>
                                          THEN @ + 1 ELSE @]
    /\ WrapUnchanged

\* the first client writes with the counter it read
WrapStale(rq) ==
    /\ svc = "wrap" /\ wrap.op # "stale" /\ wrap.k >= 1
    /\ LET r == write_vcs_control(vcs_inst,
                                  [opcode |-> rq[1], counter |-> wrap.stale,
                                   volume |-> rq[2]], WrapLen(rq[1]), 0)
       IN  /\ vcs_inst' = r.inst
           /\ wrap' = [wrap EXCEPT !.op = "stale", !.err = r.err, !.rq = rq,
                                   !.pre = vcs_inst]
    /\ WrapUnchanged

WrapInit ==
    /\ svc = "wrap" /\ trace = FALSE /\ PsriOff /\ PoolOff /\ AscsOff /\ DescOff /\ DiscOff
    /\ CsisOff /\ CliOff
    /\ \E c \in {0, 255} :
          /\ vcs_inst = [VcsDefault EXCEPT !.change_counter = c]
          /\ wrap = [NoWrap EXCEPT !.stale = c]
    /\ vocs_inst = VocsDefault /\ aics_inst = AicsDefault
    /\ out = <<>> /\ last = NoWrite /\ prev = NoWrite /\ notified = <<>> /\ nOps = 0

WrapNext ==
    \/ \E rq \in WrapRequests : WrapChange(rq)
    \/ \E rq \in WrapRequests : WrapStale(rq)

WrapSpec == WrapInit /\ [][WrapNext]_vars

\* ======================================================================
\* Properties of the servers' control points (specification Spec)
\* ======================================================================
\* the state notifications among the events of the last operation
StateNotifications == SelectSeq(out, LAMBDA e : e.ev = "notify_state")

\* C1: a control-point write (VCS, VOCS or AICS) that changes a field of the
\* State characteristic sets change_counter to (old + 1) mod 256, whatever
\* the number of fields it changed, and emits exactly one state notification,
\* which carries the new counter; the counters of successive state
\* notifications of the instance each equal the previous one plus 1 mod 256.
C1_CounterIncrement ==
    /\ last.chg =>
          /\ last.after_ctr = (last.before_ctr + 1) % 256
          /\ Len(StateNotifications) = 1
          /\ StateCounters(out) = <<last.after_ctr>>
    /\ \A i \in 2 .. Len(notified) : notified[i] = (notified[i - 1] + 1) % 256

\* a committed write at counter 255 wrapped the counter to 0, then a VCS
\* Unmute/Relative Volume opcode changed both volume and mute: the counter is
\* 1 and the two notifications carried 0 and 1
C1_Witness ==
    /\ svc = "vcs" /\ prev.chg /\ prev.before_ctr = 255 /\ prev.after_ctr = 0
    /\ last.chg /\ last.nchg = 2 /\ last.after_ctr = 1 /\ notified = <<0, 1>>
    /\ Len(StateNotifications) = 1
    /\ StateNotifications[1].v[1] # 100 /\ StateNotifications[1].v[2] = 0
    /\ vcs_inst.volume # 100 /\ vcs_inst.mute = 0
    /\ \E e \in {out[i] : i \in 1 .. Len(out)} : e.ev = "cb_state"

\* C2: a write with zero offset, a valid opcode and the length the opcode
\* implies whose counter byte differs from change_counter fails with Invalid
\* Change Counter (0x80), emits no notification and no callback and leaves
\* every field of the instance unchanged.
C2_StaleCounterRejected ==
    (last.wf /\ last.ctr # last.before_ctr) =>
        /\ last.err = (CASE svc = "vcs" -> VCS_ERR_INVALID_COUNTER
                         [] svc = "vocs" -> VOCS_ERR_INVALID_COUNTER
                         [] svc = "aics" -> AICS_ERR_INVALID_COUNTER)
        /\ last.same
        /\ out = <<>>

C2_Witness ==
    /\ last.wf /\ last.ctr # last.before_ctr /\ last.src \in Peers
    /\ last.err = 128 /\ prev.chg

\* C3: when two different peers send a well-formed write carrying the same
\* counter c and the one processed first commits a state change, the one
\* processed second fails with Invalid Change Counter and changes nothing.
C3_NoLostUpdate ==
    (/\ prev.src \in Peers /\ last.src \in Peers /\ prev.src # last.src
     /\ prev.chg /\ last.wf /\ last.ctr = prev.ctr) =>
        /\ last.err = 128
        /\ last.same
        /\ out = <<>>

C3_Witness ==
    /\ prev.src = 1 /\ last.src = 2 /\ prev.chg /\ last.wf
    /\ last.ctr = prev.ctr /\ prev.ctr = 255 /\ last.err = 128 /\ svc = "vocs"

\* ======================================================================
\* Properties of the CSIS set lock (specifications CsisSpec, CsisFairSpec)
\* ======================================================================
\* C4: while the set lock is Locked by a peer A (A's Lock write took it), a
\* Lock write from any peer, A included, fails with Lock Denied and a Release
\* write from a peer other than A fails with Lock Release Denied; each of
\* these failures leaves set_lock, lock_client_addr, the timer and the rest of
\* the instance unchanged, notifies no one and makes no callback.  A Release
\* write from A succeeds and leaves the lock Released.
C4_LockedByPeer ==
    (/\ clast.op = "write" /\ clast.wf
     /\ clast.pre_lock = BT_CSIP_LOCK_VALUE
     /\ clast.pre_holder # {} /\ clast.pre_holder \subseteq Peers) =>
        CASE clast.val = BT_CSIP_LOCK_VALUE ->
                 /\ clast.err = BT_CSIP_ERROR_LOCK_DENIED
                 /\ clast.same /\ clast.sent = {} /\ clast.cb = <<>>
                 /\ holder = clast.pre_holder
          [] clast.val = BT_CSIP_RELEASE_VALUE /\ clast.conn \notin clast.pre_holder ->
                 /\ clast.err = BT_CSIP_ERROR_LOCK_RELEASE_DENIED
                 /\ clast.same /\ clast.sent = {} /\ clast.cb = <<>>
                 /\ holder = clast.pre_holder
          [] clast.val = BT_CSIP_RELEASE_VALUE /\ clast.conn \in clast.pre_holder ->
                 /\ clast.err = 0
                 /\ csis_inst.set_lock = BT_CSIP_RELEASE_VALUE
          [] OTHER -> TRUE

\* peer 1 holds the lock with peer 2 connected, and peer 2's Release was denied
C4_Witness ==
    /\ clast.op = "write" /\ clast.wf /\ clast.pre_holder = {1} /\ clast.conn = 2
    /\ clast.val = BT_CSIP_RELEASE_VALUE
    /\ clast.err = BT_CSIP_ERROR_LOCK_RELEASE_DENIED
    /\ csis_inst.set_lock = BT_CSIP_LOCK_VALUE /\ csis_inst.lock_client_addr = 1
    /\ csis_inst.set_lock_timer /\ conns = {1, 2}

\* C5: in every reachable state set_lock = Locked if and only if
\* lock_client_addr is not the empty address and the lock timer is armed.
C5_LockedIffAddrAndTimer ==
    (csis_inst.set_lock = BT_CSIP_LOCK_VALUE)
        <=> (csis_inst.lock_client_addr # server_dummy_addr /\ csis_inst.set_lock_timer)

\* the local server took the lock: Locked with an empty lock_client_addr
C5_Witness ==
    /\ clast.op = "local" /\ clast.err = 0 /\ clast.val = BT_CSIP_LOCK_VALUE
    /\ csis_inst.set_lock = BT_CSIP_LOCK_VALUE
    /\ csis_inst.lock_client_addr = server_dummy_addr

\* C6: while the lock is Locked, an unforced Release (a peer's well-formed
\* write or the local bt_csis_lock(false, false)) from a party other than the
\* one whose Lock took the current lock fails with Lock Release Denied and
\* leaves the lock Locked.
C6_ReleaseOnlyByHolder ==
    (/\ clast.op \in {"write", "local"} /\ clast.wf
     /\ clast.val = BT_CSIP_RELEASE_VALUE
     /\ clast.pre_lock = BT_CSIP_LOCK_VALUE
     /\ clast.conn \notin clast.pre_holder) =>
        /\ clast.err = BT_CSIP_ERROR_LOCK_RELEASE_DENIED
        /\ csis_inst.set_lock = BT_CSIP_LOCK_VALUE

\* a peer released a lock that the local server had taken
C6_Witness ==
    /\ clast.op = "write" /\ clast.wf /\ clast.val = BT_CSIP_RELEASE_VALUE
    /\ clast.pre_lock = BT_CSIP_LOCK_VALUE /\ clast.pre_holder = {LOCAL_CONN}
    /\ clast.conn \in Peers /\ clast.err = 0
    /\ csis_inst.set_lock = BT_CSIP_RELEASE_VALUE

\* C7: a Locked set lock eventually becomes Released, whatever the peers do:
\* while it is Locked the lock timer is armed, and the timer's expiry sets
\* set_lock to Released and notifies every connected peer, none excluded.
C7_LockTimesOut ==
    /\ [](csis_inst.set_lock = BT_CSIP_LOCK_VALUE => csis_inst.set_lock_timer)
    /\ [](clast.op = "timer" =>
            /\ csis_inst.set_lock = BT_CSIP_RELEASE_VALUE
            /\ ~csis_inst.set_lock_timer
            /\ clast.sent = conns)
    /\ [](csis_inst.set_lock = BT_CSIP_LOCK_VALUE
            => <>(csis_inst.set_lock = BT_CSIP_RELEASE_VALUE))

\* the timer expired on a lock held by connected peer 1 and both connected
\* peers, the former holder included, were notified
C7_Witness ==
    /\ clast.op = "timer" /\ clast.pre_lock = BT_CSIP_LOCK_VALUE
    /\ clast.pre_holder = {1} /\ conns = {1, 2} /\ clast.sent = {1, 2}
    /\ csis_inst.set_lock = BT_CSIP_RELEASE_VALUE

\* ======================================================================
\* Properties of the clients (specifications ClientSpec, ClientFairSpec)
\* ======================================================================
\* C8: a control-point transaction of a client sends at most two GATT writes
\* and re-reads the state at most once; when the retried write is answered
\* Invalid Change Counter again, the transaction ends there, with that error
\* handed to the application's write callback.
C8_AtMostOneRetry ==
    /\ txn.writes <= 2
    /\ txn.reads <= 1
    /\ (txn.writes = 2 /\ txn.werr = VCS_ERR_INVALID_COUNTER)
          => (~txn.active /\ txn.cbs = 1 /\ txn.cb_err = VCS_ERR_INVALID_COUNTER)

\* a transaction that re-read the state once and whose retried write succeeded
C8_Witness ==
    /\ txn.writes = 2 /\ txn.reads = 1 /\ txn.werr = 0
    /\ ~txn.active /\ txn.cbs = 1 /\ txn.cb_err = 0

\* C9: every accepted control-point write eventually ends; it ends with
\* exactly one invocation of the callback of its opcode and with busy cleared;
\* and when nothing but a stale cached counter stood in its way (no other
\* writer, no failing GATT operation, an operation the server accepts), that
\* callback reports err 0 and the server's state is the one the operation
\* leads to.
C9_TransactionCompletes ==
    /\ [](txn.active => <>(~txn.active))
    /\ [](txn.cbs <= 1)
    /\ []((~txn.active /\ txn.cbs = 1) => (txn.cb_op = txn.opcode /\ ~txn.busy_after))
    /\ []((~txn.active /\ txn.cbs = 1 /\ txn.clean /\ txn.expect_ok)
            => (txn.cb_err = 0 /\ txn.applied))

\* a transaction that met a stale counter and nothing else, and ended with
\* err 0 and the operation applied
C9_Witness ==
    /\ ~txn.active /\ txn.cbs = 1 /\ txn.clean /\ txn.expect_ok
    /\ txn.writes = 2 /\ txn.cb_err = 0 /\ txn.applied /\ ~cli.busy

FlagsNotifications == SelectSeq(out, LAMBDA e : e.ev = "notify_flags")
VcsVolumeOpcodes ==
    {VCS_OPCODE_REL_VOL_DOWN, VCS_OPCODE_REL_VOL_UP, VCS_OPCODE_UNMUTE_REL_VOL_DOWN,
     VCS_OPCODE_UNMUTE_REL_VOL_UP, VCS_OPCODE_SET_ABS_VOL}
\* the call was the first successful volume opcode of the instance
FirstVolumeSuccess ==
    last.err = 0 /\ last.rq.opcode \in VcsVolumeOpcodes /\ last.pre.flags = 0

\* C11: after a successful VCS volume opcode (Relative Volume Down/Up, the
\* Unmute variants, Set Absolute Volume), also one that left the volume as it
\* was, flags is 1, and flags never goes back from 1; the Flags notification
\* is emitted by the first such success only, once, with value 1 and after
\* the state notification of that write; every other call (Mute, Unmute, a
\* failed write) leaves flags as it was.
C11_FlagsLatch ==
    /\ []((svc = "vcs" /\ last.src # -1) =>
            /\ (last.err = 0 /\ last.rq.opcode \in VcsVolumeOpcodes) => vcs_inst.flags = 1
            /\ Len(FlagsNotifications) = (IF FirstVolumeSuccess THEN 1 ELSE 0)
            /\ \A e \in {FlagsNotifications[i] : i \in 1 .. Len(FlagsNotifications)} :
                  e.v = <<1>>
            /\ \A i, j \in 1 .. Len(out) :
                  (out[i].ev = "notify_state" /\ out[j].ev = "notify_flags") => i < j
            /\ ~FirstVolumeSuccess => vcs_inst.flags = last.pre.flags)
    /\ [][vcs_inst.flags = 1 => vcs_inst'.flags = 1]_vars

\* the first volume opcode of a muted instance, Unmute/Relative Volume Up by
\* a peer: the state notification, then the Flags notification
C11_Witness ==
    /\ svc = "vcs" /\ last.src \in Peers /\ FirstVolumeSuccess
    /\ last.rq.opcode = VCS_OPCODE_UNMUTE_REL_VOL_UP /\ last.pre.mute = 1
    /\ vcs_inst.flags = 1 /\ vcs_inst.volume = 101 /\ vcs_inst.mute = 0
    /\ Len(out) = 4 /\ out[1].ev = "notify_state" /\ out[3].ev = "notify_flags"

\* The call was a write (or local call) with offset 0, the current counter
\* and the length of its opcode that asks for the value the instance has.
VcsSameValue ==
    /\ svc = "vcs" /\ last.src # -1 /\ last.rq.offset = 0
    /\ last.rq.counter = last.pre.change_counter
    /\ \/ last.rq.len = VCS_CP_LEN /\
          \/ last.rq.opcode = VCS_OPCODE_MUTE /\ last.pre.mute = 1
          \/ last.rq.opcode = VCS_OPCODE_UNMUTE /\ last.pre.mute = 0
          \/ last.rq.opcode = VCS_OPCODE_REL_VOL_DOWN /\ last.pre.volume = 0
          \/ last.rq.opcode = VCS_OPCODE_REL_VOL_UP /\ last.pre.volume = UINT8_MAX
          \/ /\ last.rq.opcode = VCS_OPCODE_UNMUTE_REL_VOL_DOWN
             /\ last.pre.volume = 0 /\ last.pre.mute = 0
          \/ /\ last.rq.opcode = VCS_OPCODE_UNMUTE_REL_VOL_UP
             /\ last.pre.volume = UINT8_MAX /\ last.pre.mute = 0
       \/ /\ last.rq.len = VCS_CP_ABS_VOL_LEN
          /\ last.rq.opcode = VCS_OPCODE_SET_ABS_VOL
          /\ last.rq.operand = last.pre.volume
VocsSameValue ==
    /\ svc = "vocs" /\ last.src # -1 /\ last.rq.offset = 0
    /\ last.rq.counter = last.pre.change_counter
    /\ last.rq.len = VOCS_CP_LEN /\ last.rq.opcode = VOCS_OPCODE_SET_OFFSET
    /\ last.rq.operand = last.pre.offset
AicsSameValue ==
    /\ svc = "aics" /\ last.src # -1 /\ last.rq.offset = 0
    /\ last.rq.counter = last.pre.change_counter
    /\ \/ last.rq.len = AICS_CP_LEN /\
          \/ last.rq.opcode = AICS_OPCODE_MUTE /\ last.pre.mute = AICS_STATE_MUTED
          \/ last.rq.opcode = AICS_OPCODE_UNMUTE /\ last.pre.mute = AICS_STATE_UNMUTED
          \/ last.rq.opcode = AICS_OPCODE_SET_MANUAL /\ last.pre.mode = AICS_MODE_MANUAL
          \/ last.rq.opcode = AICS_OPCODE_SET_AUTO /\ last.pre.mode = AICS_MODE_AUTO
       \/ /\ last.rq.len = AICS_CP_SET_GAIN_LEN
          /\ last.rq.opcode = AICS_OPCODE_SET_GAIN
          /\ last.rq.operand = last.pre.gain
          /\ last.pre.minimum <= last.pre.gain /\ last.pre.gain <= last.pre.maximum

\* C12: a VCS Mute of a muted instance and an Unmute of an unmuted one, with
\* the current counter, succeed, emit no notification and no callback and
\* leave volume, mute, change_counter and flags as they were; any VCS, VOCS or
\* AICS write that asks for the value the instance already has succeeds,
\* leaves the State fields and change_counter as they were and emits no state
\* notification and no state callback.
C12_NoChangeNoNotify ==
    /\ (VcsSameValue /\ last.rq.opcode \in {VCS_OPCODE_MUTE, VCS_OPCODE_UNMUTE}) =>
          (last.err = 0 /\ out = <<>> /\ vcs_inst = last.pre)
    /\ (VcsSameValue \/ VocsSameValue \/ AicsSameValue) =>
          /\ last.err = 0 /\ last.ret >= 0
          /\ ~last.chg /\ last.after_ctr = last.before_ctr
          /\ \A i \in 1 .. Len(out) : out[i].ev \notin {"notify_state", "cb_state"}
    /\ VocsSameValue => (vocs_inst = last.pre /\ out = <<>>)
    /\ AicsSameValue => (aics_inst = last.pre /\ out = <<>>)

\* a peer's Mute of a muted instance whose counter is 255 and whose flags
\* are not latched
C12_Witness ==
    /\ VcsSameValue /\ last.src \in Peers /\ last.rq.opcode = VCS_OPCODE_MUTE
    /\ last.err = 0 /\ out = <<>> /\ vcs_inst.mute = 1 /\ vcs_inst.flags = 0
    /\ vcs_inst.change_counter = 255

\* the opcode table of the Volume Control Point
TableVolume(opcode, volume, step, operand) ==
    CASE opcode \in {VCS_OPCODE_REL_VOL_DOWN, VCS_OPCODE_UNMUTE_REL_VOL_DOWN} ->
            IF volume - step < 0 THEN 0 ELSE volume - step
      [] opcode \in {VCS_OPCODE_REL_VOL_UP, VCS_OPCODE_UNMUTE_REL_VOL_UP} ->
            IF volume + step > 255 THEN 255 ELSE volume + step
      [] opcode = VCS_OPCODE_SET_ABS_VOL -> operand
      [] OTHER -> volume
TableMute(opcode, mute) ==
    CASE opcode \in {VCS_OPCODE_UNMUTE_REL_VOL_DOWN, VCS_OPCODE_UNMUTE_REL_VOL_UP,
                     VCS_OPCODE_UNMUTE} -> 0
      [] opcode = VCS_OPCODE_MUTE -> 1
      [] OTHER -> mute

\* C13: after a successful VCS control-point write (or local call) volume and
\* mute are what the opcode table gives for the volume, mute and step before
\* it: Relative Volume Down max(0, volume - step), Relative Volume Up
\* min(255, volume + step), the Unmute variants also mute = 0, Set Absolute
\* Volume the operand, Mute and Unmute only mute; volume is always in 0..255.
C13_OpcodeTable ==
    /\ vcs_inst.volume \in 0 .. 255
    /\ (svc = "vcs" /\ last.src # -1 /\ last.err = 0) =>
          /\ vcs_inst.volume = TableVolume(last.rq.opcode, last.pre.volume,
                                           last.pre.volume_step, last.rq.operand)
          /\ vcs_inst.mute = TableMute(last.rq.opcode, last.pre.mute)
          /\ vcs_inst.volume_step = last.pre.volume_step

\* Unmute/Relative Volume Up of a muted instance at volume 254 with step 2:
\* the volume stops at 255 and mute is cleared
C13_Witness ==
    /\ svc = "vcs" /\ last.src \in Peers /\ last.err = 0
    /\ last.rq.opcode = VCS_OPCODE_UNMUTE_REL_VOL_UP
    /\ last.pre.volume = 254 /\ last.pre.volume_step = 2 /\ last.pre.mute = 1
    /\ vcs_inst.volume = 255 /\ vcs_inst.mute = 0

\* the length each opcode implies
ImpliedLen ==
    CASE svc = "vcs" -> IF last.rq.opcode = VCS_OPCODE_SET_ABS_VOL THEN 3 ELSE 2
      [] svc = "aics" -> IF last.rq.opcode = AICS_OPCODE_SET_GAIN THEN 3 ELSE 2
      [] svc = "vocs" -> 4
\* a peer's write at offset 0 with an opcode of the service
WriteWithOpcode ==
    /\ svc \in {"vcs", "vocs", "aics"} /\ last.src \in Peers /\ last.rq.offset = 0
    /\ last.rq.opcode \in (CASE svc = "vcs" -> 0 .. 6
                             [] svc = "aics" -> 1 .. 5
                             [] svc = "vocs" -> {VOCS_OPCODE_SET_OFFSET})

\* C14: a control-point write whose length is not the length its opcode
\* implies (VCS: 3 for Set Absolute Volume, 2 otherwise; AICS: 3 for Set Gain,
\* 2 otherwise; VOCS: 4) fails with Invalid Attribute Length and changes
\* nothing; so do a two-byte Set Absolute Volume and a two-byte Set Gain.
C14_LengthChecked ==
    (WriteWithOpcode /\ last.rq.len # ImpliedLen) =>
        /\ last.err = BT_ATT_ERR_INVALID_ATTRIBUTE_LEN
        /\ last.same
        /\ out = <<>>

\* a two-byte Set Absolute Volume is accepted: the volume becomes the byte
\* that follows the write (255 here) and the state is notified
C14_Witness ==
    /\ svc = "vcs" /\ WriteWithOpcode /\ last.rq.opcode = VCS_OPCODE_SET_ABS_VOL
    /\ last.rq.len = 2 /\ last.err = 0 /\ last.ret = 2
    /\ last.pre.volume = 100 /\ vcs_inst.volume = 255 /\ last.chg
    /\ Len(StateNotifications) = 1

\* a peer's AICS write at offset 0 with the current counter and the length
\* of its opcode
AicsWriteInOrder ==
    /\ svc = "aics" /\ last.src \in Peers /\ last.rq.offset = 0
    /\ last.rq.counter = last.pre.change_counter
    /\ last.rq.len = (IF last.rq.opcode = AICS_OPCODE_SET_GAIN THEN 3 ELSE 2)

\* C15: on an AICS instance whose mute is Mute Disabled a Mute or Unmute write
\* with the current counter fails with Mute Disabled (0x82) and leaves gain,
\* mute, mode and change_counter as they were; no write and no local call
\* takes the mute of an initialised instance away from Mute Disabled, and
\* none takes it from Unmuted or Muted to Mute Disabled.
C15_MuteDisabled ==
    /\ []((/\ AicsWriteInOrder /\ last.pre.mute = AICS_STATE_MUTE_DISABLED
           /\ last.rq.opcode \in {AICS_OPCODE_MUTE, AICS_OPCODE_UNMUTE}) =>
             (last.err = 130 /\ aics_inst = last.pre /\ out = <<>>))
    /\ [][aics_inst.initialized =>
             ((aics_inst.mute = AICS_STATE_MUTE_DISABLED)
                 <=> (aics_inst'.mute = AICS_STATE_MUTE_DISABLED))]_vars

C15_Witness ==
    /\ AicsWriteInOrder /\ last.pre.mute = AICS_STATE_MUTE_DISABLED
    /\ last.rq.opcode = AICS_OPCODE_MUTE /\ last.err = 130
    /\ aics_inst.mute = AICS_STATE_MUTE_DISABLED /\ aics_inst.change_counter = 255

\* C16: on an AICS instance whose mode is Manual Only or Automatic Only a Set
\* Manual or Set Automatic write with the current counter fails with Gain
\* Mode No Support (0x84) and changes nothing; the mode of such an instance
\* never changes once it is initialised, and a mode of Manual or Automatic
\* only changes to Manual or Automatic.
C16_ModeImmutable ==
    /\ []((/\ AicsWriteInOrder
           /\ last.pre.mode \in {AICS_MODE_MANUAL_ONLY, AICS_MODE_AUTO_ONLY}
           /\ last.rq.opcode \in {AICS_OPCODE_SET_MANUAL, AICS_OPCODE_SET_AUTO}) =>
             (last.err = 132 /\ aics_inst = last.pre /\ out = <<>>))
    /\ [][aics_inst.initialized =>
             IF aics_inst.mode \in {AICS_MODE_MANUAL_ONLY, AICS_MODE_AUTO_ONLY}
             THEN aics_inst'.mode = aics_inst.mode
             ELSE aics_inst'.mode \in {AICS_MODE_MANUAL, AICS_MODE_AUTO}]_vars

C16_Witness ==
    /\ AicsWriteInOrder /\ last.pre.mode = AICS_MODE_AUTO_ONLY
    /\ last.rq.opcode = AICS_OPCODE_SET_MANUAL /\ last.err = 132
    /\ aics_inst.mode = AICS_MODE_AUTO_ONLY /\ aics_inst.change_counter = 0

\* The last call was a Set Gain (a peer's write or bt_aics_gain_set) with
\* the current counter; if its operand is inside the gain settings it
\* succeeded, left the instance alone in the modes of ignoring and stored the
\* operand in the modes of applying (one counter increment and one state
\* notification when the gain changed); if not it failed with Out Of Range.
SetGainRule(ignoring, applying) ==
    (/\ svc = "aics" /\ last.src # -1 /\ last.rq.offset = 0
     /\ last.rq.opcode = AICS_OPCODE_SET_GAIN /\ last.rq.len = 3
     /\ last.rq.counter = last.pre.change_counter) =>
        IF last.rq.operand >= last.pre.minimum /\ last.rq.operand <= last.pre.maximum
        THEN /\ last.err = 0
             /\ last.pre.mode \in ignoring => (aics_inst = last.pre /\ out = <<>>)
             /\ last.pre.mode \in applying =>
                   /\ aics_inst.gain = last.rq.operand
                   /\ aics_inst.mute = last.pre.mute /\ aics_inst.mode = last.pre.mode
                   /\ IF last.rq.operand # last.pre.gain
                      THEN /\ aics_inst.change_counter =
                                 (last.pre.change_counter + 1) % 256
                           /\ Len(StateNotifications) = 1
                      ELSE aics_inst = last.pre /\ out = <<>>
        ELSE last.err = AICS_ERR_OUT_OF_RANGE /\ aics_inst = last.pre /\ out = <<>>

\* C17 (as claimed): a Set Gain with the current counter and an operand in
\* [min_gain, max_gain] succeeds in every mode; in Automatic Only and Manual
\* Only it changes nothing and notifies nothing, in Manual and Automatic the
\* gain becomes the operand; an operand outside the range fails with Out Of
\* Range and changes nothing.
C17_SetGainAsClaimed ==
    SetGainRule({AICS_MODE_AUTO_ONLY, AICS_MODE_MANUAL_ONLY},
                {AICS_MODE_MANUAL, AICS_MODE_AUTO})

\* C17 (amended): as above, but the gain is left alone in Automatic and
\* Automatic Only and becomes the operand in Manual and Manual Only.
C17_SetGain ==
    SetGainRule({AICS_MODE_AUTO, AICS_MODE_AUTO_ONLY},
                {AICS_MODE_MANUAL, AICS_MODE_MANUAL_ONLY})

\* a peer's Set Gain 10 on an instance in Automatic mode with gain 0:
\* accepted, and nothing changes
C17_Witness ==
    /\ svc = "aics" /\ last.src \in Peers /\ last.rq.opcode = AICS_OPCODE_SET_GAIN
    /\ last.rq.len = 3 /\ last.rq.operand = 10 /\ last.pre.gain = 0
    /\ last.pre.mode = AICS_MODE_AUTO /\ last.err = 0
    /\ aics_inst = last.pre /\ out = <<>>

\* C18: in every state of an initialised AICS instance, whatever parameters
\* bt_aics_init accepted and whatever writes and local calls followed,
\* min_gain <= gain <= max_gain; and a write or local call leaves the gain
\* settings (units, minimum, maximum) and the input type as they were.
C18_GainInRange ==
    (svc = "aics" /\ aics_inst.initialized) =>
        /\ aics_inst.minimum <= aics_inst.gain /\ aics_inst.gain <= aics_inst.maximum
        /\ last.src # -1 =>
              /\ aics_inst.units = last.pre.units
              /\ aics_inst.minimum = last.pre.minimum
              /\ aics_inst.maximum = last.pre.maximum
              /\ aics_inst.type = last.pre.type

\* bt_aics_init has accepted an initial gain of 20 with gain settings -10..10
C18_Witness ==
    /\ svc = "aics" /\ Len(out) = 1 /\ out[1].ev = "bt_aics_init"
    /\ out[1].v.ret = "0" /\ ~out[1].v.pre.initialized
    /\ out[1].v.init.gain = 20 /\ out[1].v.init.max_gain = 10
    /\ aics_inst.initialized /\ aics_inst.gain = 20 /\ aics_inst.maximum = 10

\* C19: a VOCS Set Volume Offset with the current counter and an operand v
\* with |v| > 255 fails with Out Of Range (0x82) and changes nothing; with
\* -255 <= v <= 255 it succeeds and the offset is v.  The offset is within
\* -255..255 in every state; bt_vocs_init on a free instance rejects an
\* initial offset outside that range with -EINVAL and leaves the instance
\* as it was (not initialised), and stores one inside it.
C19_OffsetInRange ==
    /\ vocs_inst.offset >= -255 /\ vocs_inst.offset <= 255
    /\ (/\ svc = "vocs" /\ last.src # -1 /\ last.rq.offset = 0
        /\ last.rq.opcode = VOCS_OPCODE_SET_OFFSET /\ last.rq.len = 4
        /\ last.rq.counter = last.pre.change_counter) =>
          IF last.rq.operand > 255 \/ last.rq.operand < -255
          THEN last.err = 130 /\ vocs_inst = last.pre /\ out = <<>>
          ELSE last.err = 0 /\ vocs_inst.offset = last.rq.operand
    /\ (/\ svc = "vocs" /\ Len(out) = 1 /\ out[1].ev = "bt_vocs_init"
        /\ ~out[1].v.pre.initialized) =>
          IF out[1].v.init.offset > 255 \/ out[1].v.init.offset < -255
          THEN /\ out[1].v.ret = "-EINVAL"
               /\ vocs_inst = out[1].v.pre /\ ~vocs_inst.initialized
          ELSE /\ vocs_inst.offset = out[1].v.init.offset
               /\ vocs_inst.initialized <=> out[1].v.ret = "0"

\* a peer's Set Volume Offset -256 on an instance at offset -255: rejected
C19_Witness ==
    /\ svc = "vocs" /\ last.src \in Peers /\ last.rq.opcode = VOCS_OPCODE_SET_OFFSET
    /\ last.rq.len = 4 /\ last.rq.operand = -256 /\ last.pre.offset = -255
    /\ last.rq.counter = last.pre.change_counter
    /\ last.err = 130 /\ vocs_inst.offset = -255

\* what a peer's write of the opcode and operand of the last call, with the
\* current counter and the length the opcode implies, does to the instance
\* the call met
RemoteWrite ==
    CASE svc = "vcs" ->
            write_vcs_control(last.pre, [opcode |-> last.rq.opcode,
                                         counter |-> last.pre.change_counter,
                                         volume |-> last.rq.operand], ImpliedLen, 0)
      [] svc = "vocs" ->
            write_vocs_control(last.pre, [opcode |-> last.rq.opcode,
                                          counter |-> last.pre.change_counter,
                                          offset |-> last.rq.operand], ImpliedLen, 0)
      [] svc = "aics" ->
            write_aics_control(last.pre, [opcode |-> last.rq.opcode,
                                          counter |-> last.pre.change_counter,
                                          gain_setting |-> last.rq.operand],
                               ImpliedLen, 0)
\* the instance of the service of this behaviour
ServerInst ==
    CASE svc = "vcs" -> vcs_inst [] svc = "vocs" -> vocs_inst [] svc = "aics" -> aics_inst

\* C20: a local API call of the VCS, VOCS or AICS server (conn == NULL) does
\* what a peer's write of its opcode with the current counter does: it never
\* fails with Invalid Change Counter or Invalid Attribute Length, it leaves
\* the instance and emits the notifications and callbacks that write would,
\* and it returns 0 when that write succeeds.
C20_LocalAsRemote ==
    (svc \in {"vcs", "vocs", "aics"} /\ last.src = LOCAL_CONN) =>
        /\ last.err \notin {128, BT_ATT_ERR_INVALID_ATTRIBUTE_LEN}
        /\ ServerInst = RemoteWrite.inst
        /\ out = RemoteWrite.events
        /\ RemoteWrite.err = 0 => last.ret = 0

\* bt_aics_input_mute on an unmuted instance fails with Invalid Attribute
\* Length and leaves it unmuted
C20_Witness ==
    /\ svc = "aics" /\ last.src = LOCAL_CONN /\ last.rq.opcode = AICS_OPCODE_MUTE
    /\ last.pre.mute = AICS_STATE_UNMUTED /\ last.pre.initialized
    /\ last.err = BT_ATT_ERR_INVALID_ATTRIBUTE_LEN /\ last.ret = -13
    /\ aics_inst = last.pre /\ out = <<>>

\* C21: bt_vcs_volume_step_set(step) with step in 1..255 stores the step and
\* returns 0; with step 0 it returns -EINVAL and leaves the step as it was;
\* volume_step > 0 in every state.
C21_VolumeStepSet ==
    /\ vcs_inst.volume_step > 0
    /\ (svc = "vcs" /\ Len(out) = 1 /\ out[1].ev = "bt_vcs_volume_step_set") =>
          IF out[1].v.step \in 1 .. 255
          THEN out[1].v.ret = "0" /\ vcs_inst.volume_step = out[1].v.step
          ELSE out[1].v.ret = "-EINVAL" /\ vcs_inst = out[1].v.pre

\* bt_vcs_volume_step_set(2) on an instance with step 1: the step is stored
\* and -EOPNOTSUPP is returned
C21_Witness ==
    /\ svc = "vcs" /\ Len(out) = 1 /\ out[1].ev = "bt_vcs_volume_step_set"
    /\ out[1].v.step = 2 /\ out[1].v.pre.volume_step = 1
    /\ vcs_inst.volume_step = 2 /\ out[1].v.ret = "-EOPNOTSUPP"

\* ======================================================================
\* Set-lock notifications and disconnects (specification CsisBondSpec)
\* ======================================================================
\* C22: when a peer's write changes set_lock, the writer is sent no
\* notification and the pending bit of its own pend_notify entry is left as
\* it was; every other connected peer is notified; the entry of every active
\* peer that is not connected is pending afterwards.  When the lock timer
\* expires every connected peer is notified and the entry of every active
\* peer that is not connected is pending: no peer is excluded.
C22_WriterExcluded ==
    [][LET e == clast'
           pn == csis_inst.pend_notify
           after == csis_inst'.pend_notify
           away == { i \in DOMAIN pn : pn[i].active /\ pn[i].addr \notin conns }
       IN  /\ (e.op = "write" /\ csis_inst'.set_lock # csis_inst.set_lock) =>
                 /\ e.conn \notin e.sent
                 /\ \A i \in DOMAIN pn :
                        pn[i].addr = e.conn => after[i] = pn[i]
                 /\ e.sent = conns \ {e.conn}
                 /\ \A i \in away : after[i] = [pn[i] EXCEPT !.pending = TRUE]
           /\ e.op = "timer" =>
                 /\ e.sent = conns
                 /\ \A i \in away : after[i] = [pn[i] EXCEPT !.pending = TRUE]
      ]_vars

\* bonded peer 1 took the lock with peer 2 connected: peer 2 was notified,
\* peer 1 was not and its entry is not pending
C22_Witness ==
    /\ clast.op = "write" /\ clast.conn = 1 /\ clast.err = 0
    /\ clast.pre_lock = BT_CSIP_RELEASE_VALUE
    /\ csis_inst.set_lock = BT_CSIP_LOCK_VALUE
    /\ conns = {1, 2} /\ clast.sent = {2}
    /\ csis_inst.pend_notify[1].addr = 1 /\ csis_inst.pend_notify[1].active
    /\ ~csis_inst.pend_notify[1].pending

\* C23: a security-changed event without error for a bonded peer whose entry
\* is pending sends that peer the lock value and leaves no entry of the peer
\* pending; and the pending bit of an entry is cleared only by a step that
\* sent the lock value to the entry's peer, never by a security-changed
\* event that reports an error (the link was not secured).
C23_PendingDelivered ==
    [][LET e == clast'
           pn == csis_inst.pend_notify
           after == csis_inst'.pend_notify
       IN  /\ (/\ e.op = "security" /\ e.val = 0 /\ e.conn \in bonds
               /\ \E i \in DOMAIN pn : pn[i].pending /\ pn[i].addr = e.conn) =>
                 /\ e.sent = {e.conn}
                 /\ \A i \in DOMAIN pn : after[i].addr = e.conn => ~after[i].pending
           /\ \A i \in DOMAIN pn :
                (pn[i].pending /\ ~after[i].pending /\ after[i].addr = pn[i].addr) =>
                    /\ pn[i].addr \in e.sent
                    /\ ~(e.op = "security" /\ e.val # 0)
      ]_vars

\* the security change of bonded peer 2 failed, and yet the lock value was
\* sent and the pending bit of its entry cleared
C23_Witness ==
    /\ clast.op = "security" /\ clast.conn = 2 /\ clast.val = 1
    /\ clast.sent = {2} /\ 2 \in bonds /\ 2 \in conns
    /\ csis_inst.pend_notify[1].addr = 2 /\ csis_inst.pend_notify[1].active
    /\ ~csis_inst.pend_notify[1].pending

\* C24: when the peer whose Lock took the lock disconnects and is not bonded,
\* set_lock becomes Released, lock_client_addr is cleared and every remaining
\* connection is notified; when a bonded holder disconnects, or a peer that
\* does not hold the lock, set_lock is unchanged and nothing is notified.
C24_DisconnectRelease ==
    clast.op = "disconnect" =>
        IF clast.conn \in clast.pre_holder /\ clast.conn \notin bonds
        THEN /\ csis_inst.set_lock = BT_CSIP_RELEASE_VALUE
             /\ csis_inst.lock_client_addr = server_dummy_addr
             /\ clast.sent = conns
        ELSE /\ csis_inst.set_lock = clast.pre_lock
             /\ clast.sent = {}

\* peer 1, not bonded, disconnected while the local server held the lock:
\* the lock was released and peer 2 notified
C24_Witness ==
    /\ clast.op = "disconnect" /\ clast.conn = 1 /\ 1 \notin bonds
    /\ clast.pre_lock = BT_CSIP_LOCK_VALUE /\ clast.pre_holder = {LOCAL_CONN}
    /\ csis_inst.set_lock = BT_CSIP_RELEASE_VALUE
    /\ conns = {2} /\ clast.sent = {2}

\* C37: a write of Set Lock, bt_csis_lock, the lock timer and the disconnect
\* handling notify the lock value and call the locked callback only when
\* set_lock changed; the lock timer is pending only while the lock is Locked,
\* so it never expires while the lock is Released.
C37_AnnounceOnChange ==
    /\ (/\ clast.op \in {"write", "local", "force", "timer", "disconnect"}
        /\ (clast.cb # <<>> \/ clast.sent # {})) => csis_inst.set_lock # clast.pre_lock
    /\ csis_inst.set_lock_timer => csis_inst.set_lock = BT_CSIP_LOCK_VALUE
    /\ clast.op = "timer" => clast.pre_lock = BT_CSIP_LOCK_VALUE

\* C37: the application forces a release while the lock is Released, and
\* Released is announced to the application and to a connected peer
C37_Witness ==
    /\ svc = "csis" /\ clast.op = "force"
    /\ clast.pre_lock = BT_CSIP_RELEASE_VALUE /\ ~clast.pre_timer
    /\ csis_inst.set_lock = BT_CSIP_RELEASE_VALUE
    /\ clast.cb = << [conn |-> LOCAL_CONN, locked |-> FALSE] >>
    /\ clast.sent # {}

\* ======================================================================
\* The prand of a PSRI (specification PsriSpec)
\* ======================================================================
\* C25: a prand that generate_prand returned has bit 22 set and bit 23
\* clear and is neither 0 nor 0x3FFFFF, whatever bt_rand returned.
C25_PrandValid ==
    (psri_gen.pc = "done" /\ psri_gen.res = 0) =>
        /\ (psri_gen.dest \div BIT22) % 4 = 1
        /\ psri_gen.dest # 0 /\ psri_gen.dest # PRAND_MASK
        /\ psri_gen.dest < 4 * BIT22

\* bt_rand returned 0x3FFFFF, which was drawn again, and then 0xC00000
C25_Witness ==
    /\ psri_gen.pc = "done" /\ psri_gen.res = 0
    /\ drawn = << PRAND_MASK, 3 * BIT22 >>
    /\ psri_gen.dest = BIT22

\* C36: the 22 random bits (bits 0..21) of a prand that generate_prand
\* returned are neither all zero nor all one, whatever 24-bit value bt_rand
\* returned.
C36_RandomPartMixed ==
    (psri_gen.pc = "done" /\ psri_gen.res = 0) =>
        /\ AndMask22(psri_gen.dest) # 0
        /\ AndMask22(psri_gen.dest) # PRAND_MASK

\* C36: bt_rand returned 0x7FFFFF at once; the prand has all random bits set
C36_Witness ==
    /\ psri_gen.pc = "done" /\ psri_gen.res = 0
    /\ drawn = << 2 * BIT22 - 1 >>
    /\ psri_gen.dest = 2 * BIT22 - 1

\* ======================================================================
\* bt_vcs_init and the instance pools (specification PoolSpec)
\* ======================================================================
\* C26: after bt_vcs_init returned 0, the include placeholders of the VCS
\* table hold, in order, the declarations of vcs_inst.vocs_insts[..] and then
\* of vcs_inst.aics_insts[..]: none is NULL, none was overwritten, the
\* instances are distinct, and each is initialised.
C26_IncludesFilled ==
    (plast.op = "bt_vcs_init" /\ plast.ret = "0") =>
        LET nv == Len(vcs_tab.vocs_insts)
            na == Len(vcs_tab.aics_insts)
        IN  /\ \A j \in 1 .. nv :
                 /\ vcs_tab.vocs_insts[j] \in 1 .. Len(vocs_pool.inst)
                 /\ vcs_tab.user_data[j] = bt_vocs_svc_decl_get(vcs_tab.vocs_insts[j])
                 /\ vocs_pool.inst[vcs_tab.vocs_insts[j]].initialized
                 /\ \A k \in 1 .. nv : vcs_tab.vocs_insts[k] = vcs_tab.vocs_insts[j] => k = j
            /\ \A j \in 1 .. na :
                 /\ vcs_tab.aics_insts[j] \in 1 .. Len(aics_pool.inst)
                 /\ vcs_tab.user_data[nv + j] = bt_aics_svc_decl_get(vcs_tab.aics_insts[j])
                 /\ aics_pool.inst[vcs_tab.aics_insts[j]].initialized
                 /\ \A k \in 1 .. na : vcs_tab.aics_insts[k] = vcs_tab.aics_insts[j] => k = j

\* bt_vcs_init returned 0 in a build with one VOCS and one AICS include: the
\* first placeholder holds the AICS declaration and the second is NULL
C26_Witness ==
    /\ plast.op = "bt_vcs_init" /\ plast.ret = "0"
    /\ Len(vcs_tab.vocs_insts) = 1 /\ Len(vcs_tab.aics_insts) = 1
    /\ vcs_tab.user_data = << bt_aics_svc_decl_get(1), NullDecl >>
    /\ vcs_tab.vocs_insts = <<1>> /\ vcs_tab.aics_insts = <<1>>

\* C27: a pool never hands out an instance twice (the instances handed out
\* are the first instance_cnt ones, in order, also after an init call that
\* failed) and returns NULL exactly when all its instances are handed out;
\* bt_vocs_init / bt_aics_init on an initialised instance returns -EALREADY
\* and changes nothing.
C27_PoolsAndAlready ==
    /\ [](/\ given.vocs = [i \in 1 .. vocs_pool.instance_cnt |-> i]
          /\ given.aics = [i \in 1 .. aics_pool.instance_cnt |-> i]
          /\ vocs_pool.instance_cnt <= Len(vocs_pool.inst)
          /\ aics_pool.instance_cnt <= Len(aics_pool.inst)
          /\ (plast.op = "bt_vocs_free_instance_get" =>
                (plast.ret = "NULL") = (plast.inst # Len(given.vocs)))
          /\ (plast.op = "bt_aics_free_instance_get" =>
                (plast.ret = "NULL") = (plast.inst # Len(given.aics))))
    /\ [][/\ (plast'.op = "bt_vocs_free_instance_get" =>
                (plast'.ret = "NULL") = (vocs_pool.instance_cnt = Len(vocs_pool.inst)))
          /\ (plast'.op = "bt_aics_free_instance_get" =>
                (plast'.ret = "NULL") = (aics_pool.instance_cnt = Len(aics_pool.inst)))
          /\ (plast'.op = "bt_vocs_init" /\ vocs_pool.inst[plast'.inst].initialized) =>
                (plast'.ret = "-EALREADY" /\ vocs_pool' = vocs_pool)
          /\ (plast'.op = "bt_aics_init" /\ aics_pool.inst[plast'.inst].initialized) =>
                (plast'.ret = "-EALREADY" /\ aics_pool' = aics_pool)
         ]_vars

\* the only VOCS instance was handed out, its bt_vocs_init failed, and the
\* next bt_vocs_free_instance_get returned NULL
C27_Witness ==
    /\ plast.op = "bt_vocs_free_instance_get" /\ plast.ret = "NULL"
    /\ Len(vocs_pool.inst) = 1 /\ given.vocs = <<1>>
    /\ ~vocs_pool.inst[1].initialized /\ pOps = 3

\* ======================================================================
\* ASCS sessions (specification AscsSpec)
\* ======================================================================
\* C28: when a peer with a session disconnects and is not bonded, every ASE
\* of the session is Idle afterwards and the session is free (no connection,
\* no peer address); when it is bonded, the session keeps the address of the
\* peer and its non-idle ASEs stay non-idle, only the connection is dropped;
\* and a session kept for a peer is afterwards attached to no connection but
\* one of that peer.
C28_SessionOnDisconnect ==
    /\ [](alast.op = "disconnect" =>
            \A i \in DOMAIN sessions :
                alast.pre[i].conn = alast.conn =>
                    IF ~alast.bonded
                    THEN /\ sessions[i].conn = 0
                         /\ sessions[i].peer = BT_ADDR_LE_ANY
                         /\ \A k \in 1 .. MaxAse : sessions[i].ases[k].state = "Idle"
                    ELSE /\ sessions[i].conn = 0
                         /\ sessions[i].peer = alast.conn
                         /\ \A k \in 1 .. MaxAse :
                              /\ sessions[i].ases[k].id = alast.pre[i].ases[k].id
                              /\ (alast.pre[i].ases[k].state # "Idle")
                                    = (sessions[i].ases[k].state # "Idle"))
    /\ [][\A i \in DOMAIN sessions :
            (sessions[i].conn = 0 /\ sessions[i].peer # BT_ADDR_LE_ANY) =>
                /\ sessions'[i].peer = sessions[i].peer
                /\ sessions'[i].conn \in {0, sessions[i].peer}
                /\ sessions'[i].conn = 0 => sessions'[i].ases = sessions[i].ases
         ]_vars

\* bonded peer 1 configured an ASE and disconnected: its session is kept
\* with the ASE, without connection
C28_Witness ==
    /\ alast.op = "disconnect" /\ alast.conn = 1 /\ alast.bonded
    /\ alast.pre[1].conn = 1 /\ alast.pre[1].ases[1].state = "Config"
    /\ sessions[1].conn = 0 /\ sessions[1].peer = 1
    /\ sessions[1].ases[1].id = 1 /\ sessions[1].ases[1].state = "Config"

\* C29: a control-point write for which no session can be obtained is
\* answered with the ATT error Unlikely, and no control-point write reads
\* through a NULL session or faults.
C29_NoMissingSession ==
    alast.op = "cp_write" =>
        /\ (alast.session = 0 /\ alast.err \notin {BT_ATT_ERR_INVALID_OFFSET,
                                                   BT_ATT_ERR_INVALID_ATTRIBUTE_LEN})
              => alast.err = BT_ATT_ERR_UNLIKELY
        /\ ~alast.null_deref /\ ~alast.fault

\* the only session is kept for bonded peer 1, which disconnected; the
\* write of peer 2 got no session and ascs_cp_notify was called with the
\* NULL session
C29_Witness ==
    /\ alast.op = "cp_write" /\ alast.conn = 2 /\ alast.session = 0
    /\ alast.err = BT_ATT_ERR_UNLIKELY /\ alast.null_deref
    /\ sessions[1].conn = 0 /\ sessions[1].peer = 1 /\ conns = {2}

\* ======================================================================
\* The order of the control-point guards (specification GuardSpec)
\* ======================================================================
\* the opcode byte of a write is one the service knows
C30_ValidOpcode(rq) ==
    CASE svc = "vcs" -> VALID_VCS_OPCODE(rq.opcode)
      [] svc = "vocs" -> VALID_VOCS_OPCODE(rq.opcode)
      [] svc = "aics" -> VALID_AICS_OPCODE(rq.opcode)

\* the length of a write is the one its (valid) opcode implies
C30_LengthFits(rq) ==
    CASE svc = "vcs" ->
            rq.len = (IF rq.opcode = VCS_OPCODE_SET_ABS_VOL THEN VCS_CP_ABS_VOL_LEN
                      ELSE VCS_CP_LEN)
      [] svc = "vocs" -> rq.len = VOCS_CP_LEN
      [] svc = "aics" ->
            rq.len = (IF rq.opcode = AICS_OPCODE_SET_GAIN THEN AICS_CP_SET_GAIN_LEN
                      ELSE AICS_CP_LEN)

C30_Err(vcs_err, vocs_err, aics_err) ==
    CASE svc = "vcs" -> vcs_err [] svc = "vocs" -> vocs_err [] svc = "aics" -> aics_err

\* C30: in VCS, VOCS and AICS a control-point write of a peer with a non-zero
\* offset fails with Invalid Offset whatever its opcode, length and counter;
\* at offset 0 a write carrying an unknown opcode fails with Opcode Not
\* Supported whatever its length and counter; a write with a valid opcode and
\* a length that does not fit fails with Invalid Attribute Length whatever
\* its counter; and a well-formed write with another counter than the
\* current one fails with Invalid Change Counter whatever its operand.
C30_GuardOrder ==
    (last.src = 1 /\ svc \in {"vcs", "vocs", "aics"}) =>
        LET rq == last.rq
        IN  /\ rq.offset # 0 => last.err = BT_ATT_ERR_INVALID_OFFSET
            /\ (rq.offset = 0 /\ rq.len >= 1 /\ ~C30_ValidOpcode(rq)) =>
                  last.err = C30_Err(VCS_ERR_OP_NOT_SUPPORTED, VOCS_ERR_OP_NOT_SUPPORTED,
                                     AICS_ERR_OP_NOT_SUPPORTED)
            /\ (rq.offset = 0 /\ (rq.len = 0 \/ (C30_ValidOpcode(rq) /\ ~C30_LengthFits(rq)))) =>
                  last.err = BT_ATT_ERR_INVALID_ATTRIBUTE_LEN
            /\ (rq.offset = 0 /\ C30_ValidOpcode(rq) /\ C30_LengthFits(rq)
                  /\ rq.counter # last.before_ctr) =>
                  last.err = C30_Err(VCS_ERR_INVALID_COUNTER, VOCS_ERR_INVALID_COUNTER,
                                     AICS_ERR_INVALID_COUNTER)

\* a VOCS write of four bytes at offset 1 with the unknown opcode 0 was
\* answered with Opcode Not Supported
C30_Witness ==
    /\ svc = "vocs" /\ last.src = 1
    /\ last.rq.offset = 1 /\ last.rq.opcode = 0 /\ last.rq.len = VOCS_CP_LEN
    /\ last.err = VOCS_ERR_OP_NOT_SUPPORTED

\* ======================================================================
\* The retried write of the clients (specification ClientSpec)
\* ======================================================================
\* C31: when the re-read of the state after an Invalid Change Counter answer
\* completes and the client retries, the retried write carries the opcode
\* and the operand (volume, offset, gain) of the request the application
\* made, with the counter the read delivered.
C31_RetrySameRequest ==
    [][(/\ att # <<>> /\ Head(att).func = "internal"
        /\ att' # <<>> /\ Head(att').type = "write") =>
          /\ Head(att').cp.opcode = txn.opcode
          /\ Head(att').cp.operand = txn.operand
          /\ Head(att').cp.counter = SrvInst.change_counter
      ]_vars

\* the VOCS client asked for offset 100 and its second write, the retry, is
\* on its way with another offset
C31_Witness ==
    /\ svc = "vocs_client" /\ txn.active /\ txn.writes = 2 /\ txn.operand = 100
    /\ att # <<>> /\ Head(att).type = "write"
    /\ Head(att).cp.opcode = VOCS_OPCODE_SET_OFFSET
    /\ Head(att).cp.operand # 100

\* ======================================================================
\* Description writes (specification DescSpec)
\* ======================================================================
\* the string s cut to the capacity of the array minus one
C32_Clipped(s) ==
    IF Len(s) >= MaxDescSize THEN SubSeq(s, 1, MaxDescSize - 1) ELSE s

\* C32: after a peer wrote the string s to the input description of AICS or
\* the output description of VOCS, the write was not rejected, the stored
\* description is s clipped to the capacity minus one; when that differs
\* from the description before, one notification with the clipped value was
\* sent and the description callback ran, and when it is equal nothing was
\* notified.
C32_DescriptionClipped ==
    dlast.op # "none" =>
        LET now == StrOf(IF dlast.op = "input" THEN descr.input_desc
                         ELSE descr.output_desc)
        IN  /\ dlast.ret >= 0
            /\ now = C32_Clipped(dlast.s)
            /\ IF C32_Clipped(dlast.s) # dlast.pre
               THEN /\ dlast.notified = << C32_Clipped(dlast.s) >>
                    /\ dlast.cb = << C32_Clipped(dlast.s) >>
               ELSE dlast.notified = <<>> /\ dlast.cb = <<>>

\* the input description was <<1, 2>>, a peer wrote <<1>>, and the
\* description is still <<1, 2>> with nothing notified
C32_Witness ==
    /\ dlast.op = "input" /\ dlast.pre = <<1, 2>> /\ dlast.s = <<1>>
    /\ StrOf(descr.input_desc) = <<1, 2>> /\ dlast.notified = <<>>

C34_Processed(rq) ==
    IF rq.cut = "head" THEN <<>>
    ELSE IF rq.cut = "mid" /\ rq.op \in {"Config", "Enable", "Metadata"}
    THEN SubSeq(rq.ases, 1, Len(rq.ases) - 1)
    ELSE rq.ases

\* the entries of a response up to and including the first Not Supported or
\* Truncated one
C34_Closed(e) ==
    \A i \in 1 .. Len(e) : e[i].code \in {"NotSupported", "Truncated"} => i = Len(e)

\* C34: a control-point write that passes the offset and length checks is
\* answered by exactly one notification; until a Not Supported or Truncated
\* entry closes the response it holds one entry per ASE ID processed, in the
\* order of the IDs; an ASE ID other than 0 that does not exist in the
\* session is answered Invalid ASE under QoS, Enable, Start, Disable, Stop,
\* Metadata and Release; after a Not Supported or Truncated entry the number
\* of ASEs is 0xFF and no entry follows.
C34_ResponseShape ==
    (svc = "ase" /\ alast.op = "cp_write" /\ alast.rq.offset = 0 /\ alast.rq.len_ok) =>
        LET rq == alast.rq
            e == alast.rsp.entries
            ids == C34_Processed(rq)
        IN  /\ alast.notifications = 1
            /\ C34_Closed(e)
            /\ (e # <<>> /\ e[Len(e)].code \in {"NotSupported", "Truncated"})
                  <=> alast.rsp.num_ase = 255
            /\ rq.op \in AscsOpcodes =>
                  /\ \A i \in 1 .. Len(e) :
                        e[i].code \notin {"NotSupported", "Truncated"} =>
                            i <= Len(ids) /\ (ids[i] # 0 => e[i].id = ids[i])
                  /\ alast.rsp.num_ase # 255 => Len(e) = Len(ids)
                  /\ rq.op # "Config" =>
                        \A i \in 1 .. Len(e) :
                            (i <= Len(ids) /\ ids[i] # 0
                             /\ ase_find(alast.pre[1].ases, ids[i]) = 0
                             /\ \A j \in 1 .. i : e[j].code \notin {"NotSupported", "Truncated"})
                                => e[i].code = "InvalidAse"

\* C34: a write names an ASE ID the session does not have, and is answered
C34_Witness ==
    /\ svc = "ase" /\ alast.op = "cp_write" /\ alast.rq.op = "Disable"
    /\ alast.rq.ases = << MaxAse + 1 >> /\ alast.rq.cut = "none"
    /\ alast.notifications = 1
    /\ alast.rsp.entries = << AseRsp(MaxAse + 1, "InvalidAseState") >>
\* the ASE with an ID in the session of the peer (AseZero: none)
C35_Ase(ss, id) ==
    IF ase_find(ss[1].ases, id) = 0 THEN AseZero ELSE ss[1].ases[ase_find(ss[1].ases, id)]

\* C35: a Config with valid latency and PHY is accepted only for an ASE in
\* Idle, Codec Configured or QoS Configured; for an ASE in Enabling,
\* Streaming, Disabling or Releasing the entry is Invalid ASE State and state,
\* codec and channel of the ASE stay as they were.  A Config that is not
\* answered Success leaves the codec the ASE had.  The work item of an ASE
\* in Releasing without channel makes it Idle.
C35_ConfigGuard ==
    /\ (svc = "ase" /\ alast.op = "cp_write" /\ alast.rq.op = "Config"
        /\ alast.rq.offset = 0 /\ alast.rq.len_ok /\ alast.rq.lat_ok) =>
          LET ids == C34_Processed(alast.rq)
              e == alast.rsp.entries
          IN  \A i \in 1 .. Len(ids) :
                LET old == C35_Ase(alast.pre, ids[i])
                    new == C35_Ase(sessions, ids[i])
                IN  old.id # 0 =>
                      /\ e[i].id = ids[i]
                      /\ e[i].code = "Success" <=>
                            (old.state \in {"Idle", "Config", "QoS"} /\ alast.rq.res = "ok")
                      /\ old.state \notin {"Idle", "Config", "QoS"} =>
                            e[i].code = "InvalidAseState" /\ new = old
                      /\ e[i].code = "Success" =>
                            new = [old EXCEPT !.state = "Config", !.chan = TRUE,
                                              !.codec = alast.rq.codec]
                      /\ e[i].code # "Success" => new = old
    /\ (svc = "ase" /\ alast.op = "process") =>
          \A k \in 1 .. MaxAse :
              LET old == alast.pre[1].ases[k]
              IN  sessions[1].ases[k] =
                    IF k = alast.rq.ases[1] /\ old.state = "Releasing" /\ ~old.chan
                    THEN [old EXCEPT !.state = "Idle"] ELSE old

\* C35: a Config on an ASE in Streaming is refused and leaves it alone; the
\* state before it had another codec than the one asked for
C35_Witness ==
    /\ svc = "ase" /\ alast.op = "cp_write" /\ alast.rq.op = "Config"
    /\ alast.rq.ases = << 1 >> /\ alast.rq.cut = "none" /\ alast.rq.lat_ok
    /\ alast.pre[1].ases[1].state = "Streaming"
    /\ alast.pre[1].ases[1].codec # alast.rq.codec
    /\ alast.rsp.entries = << AseRsp(1, "InvalidAseState") >>
    /\ sessions[1].ases[1] = alast.pre[1].ases[1]
\* ======================================================================
\* The busy flag of the clients (specification ClientSpec)
\* ======================================================================
\* C38: in the VCS, VOCS and AICS client busy is set only while a GATT write
\* or read of the instance is outstanding: a request that failed to issue
\* its GATT operation returns with busy clear, and no completion leaves
\* busy set with nothing outstanding.
C38_BusyOnlyOutstanding ==
    (svc \in ClientKinds /\ cli.busy) => att # <<>>

\* C38: the VCS client's request failed in bt_gatt_write and returned the
\* error; nothing is outstanding and busy is set
C38_Witness ==
    /\ svc = "vcs_client" /\ rlast.api = "write" /\ rlast.ret = "ENOMEM"
    /\ ~rlast.pre_busy /\ rlast.sent = 0
    /\ att = <<>> /\ cli.busy
\* ======================================================================
\* Discovery of the VCS client (specification DiscSpec)
\* ======================================================================
\* the callbacks of an event deliver counts within the configured maxima
C39_CountsFit(cb) ==
    \A i \in 1 .. Len(cb) : cb[i].aics_cnt <= MaxInst /\ cb[i].vocs_cnt <= MaxInst

\* what C39 says of the callbacks: an event makes at most one, only for a
\* discovery that was accepted and not yet called back, with counts within
\* the maxima, and a new discovery is accepted afterwards
C39_OneCallback ==
    xlast.cb # <<>> =>
        /\ Len(xlast.cb) = 1 /\ xlast.pre_running /\ ~xlast.running
        /\ C39_CountsFit(xlast.cb)
        /\ ~disc.cur_vcs

\* C39: from the return of 0 by bt_vcs_discover until the discover callback
\* of that discovery, another bt_vcs_discover returns Busy and leaves the
\* client instance and the discovery parameters alone; every accepted
\* discovery is ended by one discover callback, with counts not above the
\* maxima, after which a discovery is accepted again.
C39_DiscoverExclusive ==
    /\ (xlast.op = "discover" /\ xlast.pre_running) =>
          xlast.ret = "EBUSY" /\ disc = xlast.pre
    /\ C39_OneCallback

\* C39: a second bt_vcs_discover before the primary service was found is
\* accepted and resets the client
C39_Witness ==
    /\ svc = "disc" /\ xlast.op = "discover" /\ xlast.pre_running
    /\ xlast.pre.func = "primary" /\ xlast.pre.inflight = 1 /\ ~xlast.pre.cur_vcs
    /\ xlast.ret = "OK" /\ disc.inflight = 2
\* ======================================================================
\* A stale change counter (specification WrapSpec)
\* ======================================================================
\* C40 as stated: a write with a counter read before k >= 1 committed
\* changes is answered Invalid Change Counter, for every k.
C40_StaleRejected ==
    (svc = "wrap" /\ wrap.op = "stale") =>
        /\ wrap.err = VCS_ERR_INVALID_COUNTER
        /\ vcs_inst = wrap.pre

\* C40: a write with a counter read before k >= 1 committed changes is
\* answered Invalid Change Counter, and changes nothing, exactly when k is
\* not a multiple of 256; after a multiple of 256 changes the counter is the
\* one that was read and the write is handled as a current one.
C40_StaleRejectedBelowWrap ==
    (svc = "wrap" /\ wrap.op = "stale") =>
        /\ (wrap.k % 256 # 0) =>
              wrap.err = VCS_ERR_INVALID_COUNTER /\ vcs_inst = wrap.pre
        /\ (wrap.k % 256 = 0) =>
              /\ wrap.err = 0
              /\ wrap.pre.change_counter = wrap.stale

\* C40: 255 changes after the read the write with the counter read is refused
C40_Witness ==
    /\ svc = "wrap" /\ wrap.op = "stale" /\ wrap.k = 255
    /\ wrap.err = VCS_ERR_INVALID_COUNTER

\* a write with the counter read 256 changes ago is accepted and applied
C40_WrapWitness ==
    /\ svc = "wrap" /\ wrap.op = "stale" /\ wrap.k = 256
    /\ wrap.err = 0 /\ vcs_inst # wrap.pre

====
